---- MODULE Spec2Model ----
(***************************************************************************)
(* Real-time term spotting and display coordination of the lecture        *)
(* assistant (lecture-assistant/src/index.ts, class LectureAssistantApp). *)
(*                                                                         *)
(* Strings are sequences of one-character strings, so that toLowerCase,   *)
(* the regular-expression replacements, split, join, includes and indexOf *)
(* are computed character by character as the JavaScript code does.       *)
(* Time is counted in milliseconds and advances in steps of one display   *)
(* duration; a timer fires when its remaining delay has reached zero.     *)
(***************************************************************************)
EXTENDS Integers, Sequences, FiniteSets, Bags, TLC

(***************************************************************************)
(* Characters and JavaScript string primitives                            *)
(***************************************************************************)
LowerLetters ==
    <<"a","b","c","d","e","f","g","h","i","j","k","l","m",
      "n","o","p","q","r","s","t","u","v","w","x","y","z">>

UpperLetters ==
    <<"A","B","C","D","E","F","G","H","I","J","K","L","M",
      "N","O","P","Q","R","S","T","U","V","W","X","Y","Z">>

Digits == {"0","1","2","3","4","5","6","7","8","9"}

Range(s) == {s[i] : i \in DOMAIN s}

\* String.prototype.toLowerCase on one character
LowerChar(c) ==
    IF \E i \in DOMAIN UpperLetters : UpperLetters[i] = c
    THEN LowerLetters[CHOOSE i \in DOMAIN UpperLetters : UpperLetters[i] = c]
    ELSE c

toLowerCase(s) == [i \in DOMAIN s |-> LowerChar(s[i])]

\* the regular-expression classes \w and \s
IsWordChar(c) == c \in Range(LowerLetters) \cup Range(UpperLetters) \cup Digits \cup {"_"}

IsSpaceChar(c) == c \in {" ", "\t", "\n"}

\* String.prototype.includes
includes(text, pat) ==
    \E i \in 0..(Len(text) - Len(pat)) : SubSeq(text, i + 1, i + Len(pat)) = pat

\* String.prototype.indexOf: the first position (from 0), or -1
indexOf(text, pat) ==
    IF includes(text, pat)
    THEN CHOOSE i \in 0..(Len(text) - Len(pat)) :
            /\ SubSeq(text, i + 1, i + Len(pat)) = pat
            /\ \A j \in 0..(i - 1) : SubSeq(text, j + 1, j + Len(pat)) # pat
    ELSE -1

\* text.replace(/-/g, " ")
RECURSIVE replaceHyphens(_)
replaceHyphens(s) ==
    IF s = <<>> THEN <<>>
    ELSE <<IF Head(s) = "-" THEN " " ELSE Head(s)>> \o replaceHyphens(Tail(s))

\* text.replace(/[^\w\s]/g, " ")
replacePunctuation(s) ==
    [i \in DOMAIN s |-> IF IsWordChar(s[i]) \/ IsSpaceChar(s[i]) THEN s[i] ELSE " "]

\* text.replace(/\s+/g, " ")
RECURSIVE collapseSpaces(_)
collapseSpaces(s) ==
    IF s = <<>> THEN <<>>
    ELSE IF IsSpaceChar(Head(s))
         THEN IF Len(s) > 1 /\ IsSpaceChar(s[2])
              THEN collapseSpaces(Tail(s))
              ELSE <<" ">> \o collapseSpaces(Tail(s))
         ELSE <<Head(s)>> \o collapseSpaces(Tail(s))

\* String.prototype.trim
RECURSIVE trimStart(_)
trimStart(s) ==
    IF s # <<>> /\ IsSpaceChar(Head(s)) THEN trimStart(Tail(s)) ELSE s

RECURSIVE trimEnd(_)
trimEnd(s) ==
    IF s # <<>> /\ IsSpaceChar(s[Len(s)]) THEN trimEnd(SubSeq(s, 1, Len(s) - 1)) ELSE s

trim(s) == trimEnd(trimStart(s))

\* text.split(" ").filter((word) => word.length > 0)
RECURSIVE splitWords(_, _)
splitWords(s, cur) ==
    IF s = <<>>
    THEN IF cur = <<>> THEN <<>> ELSE <<cur>>
    ELSE IF Head(s) = " "
         THEN (IF cur = <<>> THEN <<>> ELSE <<cur>>) \o splitWords(Tail(s), <<>>)
         ELSE splitWords(Tail(s), Append(cur, Head(s)))

\* Array.prototype.join
RECURSIVE join(_, _)
join(ws, sep) ==
    IF ws = <<>> THEN <<>>
    ELSE IF Len(ws) = 1 THEN ws[1]
    ELSE ws[1] \o sep \o join(Tail(ws), sep)

Min(a, b) == IF a < b THEN a ELSE b

MaxOf(S) == CHOOSE x \in S : \A y \in S : y <= x

MinOf(S) == CHOOSE x \in S : \A y \in S : x <= y

\* faulty variant: punctuation, hyphens included, is left in place
normalizeText_KeepsPunctuation(text) == trim(collapseSpaces(toLowerCase(text)))

(***************************************************************************)
(* normalizeText and isPermissiveMatch                                    *)
(***************************************************************************)
\* faulty variant: the spaces are collapsed before the punctuation is replaced
normalizeText_CollapseFirst(text) ==
    trim(replacePunctuation(collapseSpaces(toLowerCase(text))))

normalizeText(text) == trim(collapseSpaces(replacePunctuation(toLowerCase(text))))

NoMatch == [isMatch |-> FALSE, matchedText |-> <<>>]

Matched(t) == [isMatch |-> TRUE, matchedText |-> t]

\* the closed set of domain-suffix words
PatternSuffixes ==
    { <<"t","h","e","o","r","y">>,
      <<"d","u","a","l","i","t","y">>,
      <<"p","r","i","n","c","i","p","l","e">>,
      <<"e","q","u","a","t","i","o","n">>,
      <<"l","a","w">>,
      <<"e","f","f","e","c","t">>,
      <<"m","o","d","e","l">> }

SignificantCount == 3

ProximityBound == 50

PatternMinLength == 4

SignificantMinLength == 2

\* keywordWords.slice(-Math.min(3, keywordWords.length))
SignificantWords(keywordWords) ==
    SubSeq(keywordWords,
           Len(keywordWords) - Min(SignificantCount, Len(keywordWords)) + 1,
           Len(keywordWords))

\* Math.max(...wordPositions) - Math.min(...wordPositions)
MaxDistance(wordPositions) == MaxOf(wordPositions) - MinOf(wordPositions)

\* faulty variant: the significant words must occur in the order of the term
SignificantMatch_InOrder(text, significantWords) ==
    /\ \A i \in DOMAIN significantWords :
            /\ includes(text, significantWords[i])
            /\ Len(significantWords[i]) > SignificantMinLength
    /\ \A i \in DOMAIN significantWords : \A j \in DOMAIN significantWords :
            i < j => indexOf(text, significantWords[i]) < indexOf(text, significantWords[j])
    /\ MaxDistance({indexOf(text, significantWords[i]) : i \in DOMAIN significantWords})
            < ProximityBound

\* faulty variant: short significant words are searched like the others
SignificantMatch_AnyLength(text, significantWords) ==
    /\ \A i \in DOMAIN significantWords : includes(text, significantWords[i])
    /\ MaxDistance({indexOf(text, significantWords[i]) : i \in DOMAIN significantWords})
            < ProximityBound

\* every significant word occurs in the text and is longer than 2 characters,
\* and their first occurrences lie less than 50 characters apart
SignificantMatch(text, significantWords) ==
    /\ \A i \in DOMAIN significantWords :
            /\ includes(text, significantWords[i])
            /\ Len(significantWords[i]) > SignificantMinLength
    /\ MaxDistance({indexOf(text, significantWords[i]) : i \in DOMAIN significantWords})
            < ProximityBound

\* the last word is a domain suffix and "<second-to-last> <last>" occurs verbatim
PatternMatch(text, secondLastWord, lastWord) ==
    /\ Len(lastWord) > PatternMinLength
    /\ lastWord \in PatternSuffixes
    /\ includes(text, secondLastWord \o <<" ">> \o lastWord)

\* the rules of isPermissiveMatch, in order, on the forms of the keyword
PermissiveRules(text, lowered, normalizedKeyword, keywordWords) ==
    IF includes(text, normalizedKeyword) THEN Matched(normalizedKeyword)
    ELSE IF includes(text, join(keywordWords, <<"-">>))
         THEN Matched(join(keywordWords, <<"-">>))
    ELSE IF includes(text, replaceHyphens(lowered)) THEN Matched(replaceHyphens(lowered))
    ELSE IF Len(keywordWords) >= 2 /\ SignificantMatch(text, SignificantWords(keywordWords))
         THEN Matched(join(SignificantWords(keywordWords), <<" ">>))
    ELSE IF /\ Len(keywordWords) >= 2
            /\ PatternMatch(text, keywordWords[Len(keywordWords) - 1],
                            keywordWords[Len(keywordWords)])
         THEN Matched(keywordWords[Len(keywordWords) - 1] \o <<" ">>
                        \o keywordWords[Len(keywordWords)])
    ELSE NoMatch

isPermissiveMatch(text, keyword) ==
    PermissiveRules(text, toLowerCase(keyword), normalizeText(keyword),
                    splitWords(normalizeText(keyword), <<>>))

(***************************************************************************)
(* The sliding-window scan and the match cache (detectKeywordsInText)     *)
(***************************************************************************)
MaxWindowSize == 5

None == <<"none">>

\* words.slice(i, i + windowSize).join(" ")
WindowAt(words, windowSize, i) == join(SubSeq(words, i + 1, i + windowSize), <<" ">>)

\* the test of one keyword against one window: the exact rule, then, for a
\* multi-word keyword and a window of more than one word, the permissive rules
MatchRules(window, windowSize, keyword, normalizedKeyword) ==
    IF window = normalizedKeyword \/ includes(window, normalizedKeyword)
    THEN Matched(normalizedKeyword)
    ELSE IF includes(normalizedKeyword, <<" ">>) /\ windowSize > 1
         THEN isPermissiveMatch(window, keyword)
         ELSE NoMatch

KeywordMatch(window, windowSize, keyword) ==
    MatchRules(window, windowSize, keyword, normalizeText(keyword))

\* for (const [keyword, definition] of this.sortedKeywords): the position of the
\* first keyword that is not recent and matches the window, or 0
FirstKeyword(window, windowSize, sortedKw, recent) ==
    IF \E k \in DOMAIN sortedKw :
            /\ sortedKw[k][1] \notin recent
            /\ KeywordMatch(window, windowSize, sortedKw[k][1]).isMatch
    THEN MinOf({k \in DOMAIN sortedKw :
                    /\ sortedKw[k][1] \notin recent
                    /\ KeywordMatch(window, windowSize, sortedKw[k][1]).isMatch})
    ELSE 0

\* the windows at which some keyword matches
MatchingWindows(words, sortedKw, recent) ==
    {w \in (1..Min(MaxWindowSize, Len(words))) \X (0..Len(words)) :
        /\ w[2] <= Len(words) - w[1]
        /\ FirstKeyword(WindowAt(words, w[1], w[2]), w[1], sortedKw, recent) # 0}

\* faulty variant: the window loop runs from one word upwards
FirstOf_SmallestFirst(windows) ==
    IF windows = {} THEN None
    ELSE CHOOSE w \in windows :
            \A v \in windows : w[1] < v[1] \/ (w[1] = v[1] /\ w[2] <= v[2])

\* the order of the two nested window loops: larger windows first, then
\* smaller start offsets
FirstOf(windows) ==
    IF windows = {} THEN None
    ELSE CHOOSE w \in windows :
            \A v \in windows : w[1] > v[1] \/ (w[1] = v[1] /\ w[2] <= v[2])

FirstWindow(words, sortedKw, recent) == FirstOf(MatchingWindows(words, sortedKw, recent))

\* what the scan stores and shows for the keyword that matched a window
MatchOf(window, windowSize, entry) ==
    [entry |-> KeywordMatch(window, windowSize, entry[1]), shown |-> entry]

ScanAt(words, w, sortedKw, recent) ==
    IF w = None
    THEN [entry |-> NoMatch, shown |-> None]
    ELSE MatchOf(WindowAt(words, w[1], w[2]), w[1],
                 sortedKw[FirstKeyword(WindowAt(words, w[1], w[2]), w[1], sortedKw, recent)])

ScanWords(words, sortedKw, recent) ==
    ScanAt(words, FirstWindow(words, sortedKw, recent), sortedKw, recent)

\* the cache-miss path: the scan, with the entry it stores and the term it shows
ScanText(normalizedText, sortedKw, recent) ==
    ScanWords(splitWords(normalizedText, <<>>), sortedKw, recent)

\* this.sortedKeywords.find(([keyword]) => normalizeText(keyword) ===
\* matchedText || keyword.toLowerCase() === matchedText): the entry, or None
FindCached(sortedKw, matchedText) ==
    IF \E k \in DOMAIN sortedKw :
            \/ normalizeText(sortedKw[k][1]) = matchedText
            \/ toLowerCase(sortedKw[k][1]) = matchedText
    THEN sortedKw[MinOf({k \in DOMAIN sortedKw :
                            \/ normalizeText(sortedKw[k][1]) = matchedText
                            \/ toLowerCase(sortedKw[k][1]) = matchedText})]
    ELSE None

ShowUnlessRecent(matchedKeyword, recent) ==
    IF matchedKeyword # None /\ matchedKeyword[1] \notin recent
    THEN matchedKeyword
    ELSE None

\* faulty variant: the cache-hit path shows the stored term without asking the recent set
ReplayCached_IgnoresRecent(cached, sortedKw, recent) ==
    IF cached.isMatch THEN FindCached(sortedKw, cached.matchedText) ELSE None

\* the cache-hit path: the term shown for a stored entry, or None
ReplayCached(cached, sortedKw, recent) ==
    IF cached.isMatch
    THEN ShowUnlessRecent(FindCached(sortedKw, cached.matchedText), recent)
    ELSE None

EmptyCache == <<>>

\* faulty variant: a scan that finds nothing is not remembered
MissOutcome_NoNegativeCache(normalizedText, cache, recent, r) ==
    [path |-> "miss",
     cache |-> IF r.shown = None THEN cache ELSE (normalizedText :> r.entry) @@ cache,
     recent |-> IF r.shown = None THEN recent ELSE recent \cup {r.shown[1]},
     shown |-> r.shown]

\* faulty variant: the cache-hit path shows the term without marking it recent
HitOutcome_NotMarked(cache, recent, shown) ==
    [path |-> "hit", cache |-> cache, recent |-> recent, shown |-> shown]

\* the outcome of the cache-hit path
HitOutcome(cache, recent, shown) ==
    [path |-> "hit",
     cache |-> cache,
     recent |-> IF shown = None THEN recent ELSE recent \cup {shown[1]},
     shown |-> shown]

\* the outcome of the cache-miss path for the scan result r
MissOutcome(normalizedText, cache, recent, r) ==
    [path |-> "miss",
     cache |-> (normalizedText :> r.entry) @@ cache,
     recent |-> IF r.shown = None THEN recent ELSE recent \cup {r.shown[1]},
     shown |-> r.shown]

\* detectKeywordsInText up to the call of displayKeywordDefinition: the path
\* taken, the cache and the recent set it leaves, and the term it shows
detectKeywordsInText(normalizedText, sortedKw, cache, recent) ==
    IF normalizedText \in DOMAIN cache
    THEN HitOutcome(cache, recent, ReplayCached(cache[normalizedText], sortedKw, recent))
    ELSE MissOutcome(normalizedText, cache, recent,
                     ScanText(normalizedText, sortedKw, recent))

(***************************************************************************)
(* buildKeywordCache: Array.prototype.sort is stable, longest keyword     *)
(* (in characters) first                                                  *)
(***************************************************************************)
RECURSIVE InsertByLength(_, _)
InsertByLength(sorted, e) ==
    IF sorted = <<>> THEN <<e>>
    ELSE IF Len(Head(sorted)[1]) >= Len(e[1])
         THEN <<Head(sorted)>> \o InsertByLength(Tail(sorted), e)
         ELSE <<e>> \o sorted

RECURSIVE SortByLength(_)
SortByLength(entries) ==
    IF entries = <<>> THEN <<>>
    ELSE InsertByLength(SortByLength(SubSeq(entries, 1, Len(entries) - 1)),
                        entries[Len(entries)])

\* Map.prototype.set on the insertion-ordered Map keywordDefinitions
MapSet(entries, key, value) ==
    IF \E i \in DOMAIN entries : entries[i][1] = key
    THEN [i \in DOMAIN entries |-> IF entries[i][1] = key THEN <<key, value>> ELSE entries[i]]
    ELSE Append(entries, <<key, value>>)

(***************************************************************************)
(* Inputs: the keyword lists the generator returns and the transcribed    *)
(* texts                                                                  *)
(***************************************************************************)
K_field == <<"F","i","e","l","d">>

K_qft == <<"q","u","a","n","t","u","m"," ","f","i","e","l","d"," ","t","h","e","o","r","y">>

K_theory == <<"t","h","e","o","r","y">>

\* the <<keyword, definition>> pairs generated for a topic, in generation order
Lectures ==
    <<  << <<K_field, "def_field">>, <<K_qft, "def_qft">> >>,
        << <<K_theory, "def_theory">> >>  >>

T_field == <<"f","i","e","l","d">>

T_The_field == <<"T","h","e"," ","f","i","e","l","d","!">>

T_the_field == <<"t","h","e"," "," ","f","i","e","l","d">>

T_short == <<"a","."," ">>

\* the raw texts of transcription events that are not voice commands
Fragments == {T_field, T_The_field, T_the_field, T_short}

\* bounds of the exploration
MaxSetups == 1

MaxTimers == 2

(***************************************************************************)
(* State                                                                  *)
(***************************************************************************)
VARIABLES
    isRecording,          \* this.isRecording
    keywordDefinitions,   \* this.keywordDefinitions, in insertion order
    sortedKeywords,       \* this.sortedKeywords
    keywordCache,         \* this.keywordCache
    recentKeywords,       \* this.recentKeywords
    lastProcessedText,    \* this.lastProcessedText
    isShowingDefinition,  \* this.isShowingDefinition
    collecting,           \* this.topicCollector is waiting for the topic
    setups,               \* the onTopicCollected calls in progress
    renders,              \* the displayKeywordDefinition calls awaiting showTextWall
    timers,               \* the bag of pending setTimeout callbacks
    sinceShown,           \* history: milliseconds since each keyword was last shown
    scanned,              \* history: the texts scanned since the cache was last emptied
    last,                 \* history: what the last step did
    currentDisplayMode,   \* CaptionManager.currentDisplayMode
    isDisplaying,         \* CaptionManager.isDisplaying
    displayTimer,         \* CaptionManager.displayTimer: a timer handle, or NullTimer
    currentDisplayText,   \* CaptionManager.currentDisplayText
    displayTimers,        \* the pending setTimeout callbacks of the CaptionManager,
                          \* handle :> remaining delay
    response,             \* history: the last CaptionManager call and what it returned
    queue,                \* FlashcardQuiz.queue
    session,              \* FlashcardQuiz.session
    currentCard,          \* FlashcardQuiz.currentCard
    quizStep,             \* history: the last FlashcardQuiz call and what it returned
    state,                \* TopicCollector.state
    onCompleteCallback,   \* TopicCollector.onCompleteCallback is set
    completing,           \* the completeTopicCollection calls awaiting showTextWall
    collected             \* history: the last TopicCollector call, what it returned,
                          \* and the topics handed to the callback

lectureVars == <<isRecording, keywordDefinitions, sortedKeywords, keywordCache,
                 recentKeywords, lastProcessedText, isShowingDefinition, collecting,
                 setups, renders, timers, sinceShown, scanned, last>>

captionVars == <<currentDisplayMode, isDisplaying, displayTimer, currentDisplayText,
                 displayTimers, response>>

quizVars == <<queue, session, currentCard, quizStep>>

collectorVars == <<state, onCompleteCallback, completing, collected>>

agentVars == <<captionVars, quizVars, collectorVars>>

vars == <<lectureVars, agentVars>>

COOLDOWN_MS == 10000

KEYWORD_DEFINITION == 5000

\* time advances in steps of one display duration
TickMs == KEYWORD_DEFINITION

Step(op, path, shown, stale) == [op |-> op, path |-> path, shown |-> shown, stale |-> stale]

(***************************************************************************)
(* The agents beside the lecture: CaptionManager, FlashcardQuiz and       *)
(* TopicCollector, as constructed                                         *)
(***************************************************************************)
\* displayTimer = null
NullTimer == 0

\* a display text: what it shows and its words; currentDisplayText = null
Text(kind, body) == [kind |-> kind, body |-> body]

NullText == Text("null", <<>>)

\* the field initializers of CaptionManager
CaptionInit ==
    /\ currentDisplayMode = "MAIN_MENU"
    /\ isDisplaying = FALSE
    /\ displayTimer = NullTimer
    /\ currentDisplayText = NullText
    /\ displayTimers = <<>>
    /\ response = [call |-> "none", type |-> "none"]

\* currentCard = null
NoCard == [term |-> "null", definition |-> <<>>, attempts |-> 0]

\* flashcardSet.cards.map(card => ({...card, attempts: 0}))
ZeroAttempts(cards) == [i \in DOMAIN cards |-> [cards[i] EXCEPT !.attempts = 0]]

\* the constructor of FlashcardQuiz for a flashcard set, with the queue in its
\* shuffled order (the dates are left out)
QuizOf(flashcardSet, shuffled) ==
    /\ queue = shuffled
    /\ session = [flashcardSet |-> flashcardSet, totalCards |-> Len(flashcardSet),
                  cardsCompleted |-> 0, incorrectAttempts |-> 0, isComplete |-> FALSE]
    /\ currentCard = NoCard
    /\ quizStep = [call |-> "none", result |-> FALSE, drawn |-> FALSE]

\* collectedData = {}
NoData == [subject |-> <<>>, subtopic |-> <<>>, level |-> "none"]

\* onCompleteCallback = null; a callback is known by the number of the
\* startCollection call that passed it
NullCallback == 0

\* what the last call on the collector was and returned, how many collections
\* were started, and the invocations of the callbacks
Collected(call, input, result, accepted, started, topics) ==
    [call |-> call, input |-> input, result |-> result, accepted |-> accepted,
     started |-> started, topics |-> topics]

\* the constructor of TopicCollector
CollectorInit ==
    /\ state = [isCollecting |-> FALSE, currentStep |-> "subject", collectedData |-> NoData]
    /\ onCompleteCallback = NullCallback
    /\ completing = <<>>
    /\ collected = Collected("none", <<>>, FALSE, FALSE, 0, <<>>)

AgentsInit == CaptionInit /\ QuizOf(<<>>, <<>>) /\ CollectorInit

LectureInit ==
    /\ isRecording = FALSE
    /\ keywordDefinitions = <<>>
    /\ sortedKeywords = <<>>
    /\ keywordCache = EmptyCache
    /\ recentKeywords = {}
    /\ lastProcessedText = <<>>
    /\ isShowingDefinition = FALSE
    /\ collecting = FALSE
    /\ setups = <<>>
    /\ renders = <<>>
    /\ timers = EmptyBag
    /\ sinceShown = <<>>
    /\ scanned = <<>>
    /\ last = Step("other", "", None, FALSE)

Init == LectureInit /\ AgentsInit

(***************************************************************************)
(* Helpers on sequences and on the history variables                      *)
(***************************************************************************)
RemoveAt(seq, i) == SubSeq(seq, 1, i - 1) \o SubSeq(seq, i + 1, Len(seq))

Timer(kind, delay, stale) == [kind |-> kind, remaining |-> delay, stale |-> stale]

\* everything scheduled or begun before a lecture start belongs to the previous lecture
MarkStale(seq) == [i \in DOMAIN seq |-> [seq[i] EXCEPT !.stale = TRUE]]

MarkStaleTimers(bag) ==
    LET marked == {[t EXCEPT !.stale = TRUE] : t \in BagToSet(bag)}
    IN  [t \in marked |-> CopiesIn(t, bag) + CopiesIn([t EXCEPT !.stale = FALSE], bag)]

\* faulty variant: the callback is scheduled one tick later than asked
Schedule_Late(bag, kind, delay, stale) ==
    bag (+) SetToBag({Timer(kind, delay + TickMs, stale)})

Schedule(bag, kind, delay, stale) == bag (+) SetToBag({Timer(kind, delay, stale)})

Cancel(bag, t) == bag (-) SetToBag({t})

Elapse(bag, ms) ==
    LET later == {[t EXCEPT !.remaining = @ - ms] : t \in BagToSet(bag)}
    IN  [t \in later |-> CopiesIn([t EXCEPT !.remaining = @ + ms], bag)]

PendingCount(kind) ==
    LET S == {t \in BagToSet(timers) : t.kind = kind}
        RECURSIVE Sum(_)
        Sum(T) == IF T = {} THEN 0
                  ELSE LET t == CHOOSE x \in T : TRUE
                       IN  CopiesIn(t, timers) + Sum(T \ {t})
    IN  Sum(S)

CountScan(key) ==
    IF key \in DOMAIN scanned THEN [scanned EXCEPT ![key] = Min(2, @ + 1)]
    ELSE (key :> 1) @@ scanned

MarkShown(keyword) == (keyword :> 0) @@ sinceShown

(***************************************************************************)
(* Lecture life cycle: startRecording, onTopicCollected, beginRecording,  *)
(* stopRecording                                                          *)
(***************************************************************************)
\* faulty variant: startRecording replaces the index and keeps the match cache
StartRecording_KeepsCache ==
    /\ ~isRecording
    /\ collecting' = TRUE
    /\ keywordDefinitions' = <<>>
    /\ sortedKeywords' = <<>>
    /\ recentKeywords' = {}
    /\ lastProcessedText' = <<>>
    /\ timers' = MarkStaleTimers(timers)
    /\ renders' = MarkStale(renders)
    /\ sinceShown' = <<>>
    /\ last' = Step("start", "", None, FALSE)
    /\ UNCHANGED <<isRecording, isShowingDefinition, setups, keywordCache, scanned>>
    /\ UNCHANGED agentVars

\* a start-lecture command while not recording
StartRecording ==
    /\ ~isRecording
    /\ collecting' = TRUE
    /\ keywordDefinitions' = <<>>
    /\ keywordCache' = EmptyCache
    /\ sortedKeywords' = <<>>
    /\ recentKeywords' = {}
    /\ lastProcessedText' = <<>>
    /\ timers' = MarkStaleTimers(timers)
    /\ renders' = MarkStale(renders)
    /\ sinceShown' = <<>>
    /\ scanned' = <<>>
    /\ last' = Step("start", "", None, FALSE)
    /\ UNCHANGED <<isRecording, isShowingDefinition, setups>>
    /\ UNCHANGED agentVars

\* the topic collector completes (the voice input is handed to it only while
\* not recording) and calls onTopicCollected with a topic; at most `bound`
\* calls of onTopicCollected are in progress at a time
OnTopicCollected(l, bound) ==
    /\ collecting
    /\ ~isRecording
    /\ Len(setups) < bound
    /\ collecting' = FALSE
    /\ setups' = Append(setups, [lecture |-> l, next |-> 1,
                                 pc |-> IF Lectures[l] = <<>> THEN "save" ELSE "generate"])
    /\ last' = Step("other", "", None, FALSE)
    /\ UNCHANGED <<isRecording, keywordDefinitions, sortedKeywords, keywordCache,
                   recentKeywords, lastProcessedText, isShowingDefinition, renders,
                   timers, sinceShown, scanned>>
    /\ UNCHANGED agentVars

TopicCollected(l) == OnTopicCollected(l, MaxSetups)

\* one turn of the loop over the generated keywords
GenerateDefinition(p) ==
    /\ p \in DOMAIN setups
    /\ setups[p].pc = "generate"
    /\ LET entry == Lectures[setups[p].lecture][setups[p].next]
       IN  keywordDefinitions' = MapSet(keywordDefinitions, toLowerCase(entry[1]), entry[2])
    /\ setups' = [setups EXCEPT ![p].next = @ + 1,
                                ![p].pc = IF setups[p].next = Len(Lectures[setups[p].lecture])
                                          THEN "save" ELSE "generate"]
    /\ last' = Step("other", "", None, FALSE)
    /\ UNCHANGED <<isRecording, sortedKeywords, keywordCache, recentKeywords,
                   lastProcessedText, isShowingDefinition, collecting, renders, timers,
                   sinceShown, scanned>>
    /\ UNCHANGED agentVars

\* this.sortedKeywords = ...sort(...); this.keywordCache.clear()
BuildKeywordCache(p) ==
    /\ p \in DOMAIN setups
    /\ setups[p].pc = "save"
    /\ sortedKeywords' = SortByLength(keywordDefinitions)
    /\ keywordCache' = EmptyCache
    /\ scanned' = <<>>
    /\ setups' = [setups EXCEPT ![p].pc = "ready"]
    /\ last' = Step("other", "", None, FALSE)
    /\ UNCHANGED <<isRecording, keywordDefinitions, recentKeywords, lastProcessedText,
                   isShowingDefinition, collecting, renders, timers, sinceShown>>
    /\ UNCHANGED agentVars

\* an awaited call of onTopicCollected throws: the catch block starts recording
SetupError(p) ==
    /\ p \in DOMAIN setups
    /\ setups[p].pc \in {"generate", "save"}
    /\ setups' = [setups EXCEPT ![p].pc = "ready"]
    /\ last' = Step("other", "", None, FALSE)
    /\ UNCHANGED <<isRecording, keywordDefinitions, sortedKeywords, keywordCache,
                   recentKeywords, lastProcessedText, isShowingDefinition, collecting,
                   renders, timers, sinceShown, scanned>>
    /\ UNCHANGED agentVars

BeginRecording(p) ==
    /\ p \in DOMAIN setups
    /\ setups[p].pc = "ready"
    /\ isRecording' = TRUE
    /\ setups' = RemoveAt(setups, p)
    /\ last' = Step("other", "", None, FALSE)
    /\ UNCHANGED <<keywordDefinitions, sortedKeywords, keywordCache, recentKeywords,
                   lastProcessedText, isShowingDefinition, collecting, renders, timers,
                   sinceShown, scanned>>
    /\ UNCHANGED agentVars

\* a stop-lecture command while recording
StopRecording ==
    /\ isRecording
    /\ isRecording' = FALSE
    /\ last' = Step("stop", "", None, FALSE)
    /\ UNCHANGED <<keywordDefinitions, sortedKeywords, keywordCache, recentKeywords,
                   lastProcessedText, isShowingDefinition, collecting, setups, renders,
                   timers, sinceShown, scanned>>
    /\ UNCHANGED agentVars

(***************************************************************************)
(* Transcription events: the listener, checkForKeywordsStreaming and      *)
(* displayKeywordDefinition                                               *)
(***************************************************************************)
MinTextLength == 2

\* faulty variant: the early return forgets the display flag
SkipStreaming_IgnoresDisplay(sortedKw, showing) == sortedKw = <<>>

\* faulty variant: the early return forgets the empty index
SkipStreaming_IgnoresEmptyIndex(sortedKw, showing) == showing

\* the early return of checkForKeywordsStreaming
SkipStreaming(sortedKw, showing) == sortedKw = <<>> \/ showing

\* the rest of checkForKeywordsStreaming once the text is worth processing:
\* the recency timer of a final text, then the detection d and, for a match,
\* displayKeywordDefinition up to its await (the flag is set before the await)
ProcessText(normalizedText, isFinal, d) ==
    /\ isFinal => PendingCount("recency") < MaxTimers
    /\ lastProcessedText' = IF isFinal THEN <<>> ELSE normalizedText
    /\ timers' = IF isFinal
                 THEN Schedule(timers, "recency", COOLDOWN_MS, FALSE)
                 ELSE timers
    /\ keywordCache' = d.cache
    /\ recentKeywords' = d.recent
    /\ scanned' = IF d.path = "miss" THEN CountScan(normalizedText) ELSE scanned
    /\ IF d.shown = None
       THEN /\ last' = Step("fragment", d.path, None, FALSE)
            /\ UNCHANGED <<isShowingDefinition, renders, sinceShown>>
       ELSE /\ isShowingDefinition' = TRUE
            /\ renders' = Append(renders, [keyword |-> d.shown[1],
                                           definition |-> d.shown[2],
                                           stale |-> FALSE])
            /\ sinceShown' = MarkShown(d.shown[1])
            /\ last' = Step("fragment", d.path, d.shown[1], FALSE)

NormalizedStep(normalizedText, isFinal) ==
    IF Len(normalizedText) < MinTextLength
    THEN /\ last' = Step("fragment", "short", None, FALSE)
         /\ UNCHANGED <<lastProcessedText, timers, keywordCache, recentKeywords,
                        isShowingDefinition, renders, sinceShown, scanned>>
    ELSE ProcessText(normalizedText, isFinal,
                     detectKeywordsInText(normalizedText, sortedKeywords,
                                          keywordCache, recentKeywords))

\* checkForKeywordsStreaming, up to the await of showTextWall inside
\* displayKeywordDefinition (no await precedes it, so the handler is atomic so far)
checkForKeywordsStreaming(text, isFinal) ==
    IF SkipStreaming(sortedKeywords, isShowingDefinition)
    THEN /\ last' = Step("fragment", IF sortedKeywords = <<>> THEN "empty" ELSE "showing",
                         None, FALSE)
         /\ UNCHANGED <<lastProcessedText, timers, keywordCache, recentKeywords,
                        isShowingDefinition, renders, sinceShown, scanned>>
    ELSE NormalizedStep(normalizeText(text), isFinal)

\* session.events.onTranscription: a text that is no voice command
OnTranscription(text, isFinal) ==
    /\ IF isFinal
       THEN IF isRecording
            THEN checkForKeywordsStreaming(text, isFinal)
            ELSE /\ last' = Step("fragment", "idle", None, FALSE)
                 /\ UNCHANGED <<lastProcessedText, timers, keywordCache, recentKeywords,
                                isShowingDefinition, renders, sinceShown, scanned>>
       ELSE /\ last' = Step("fragment", "partial", None, FALSE)
            /\ UNCHANGED <<lastProcessedText, timers, keywordCache, recentKeywords,
                           isShowingDefinition, renders, sinceShown, scanned>>
    /\ UNCHANGED <<isRecording, keywordDefinitions, sortedKeywords, collecting, setups>>
    /\ UNCHANGED agentVars

\* showTextWall resolves: the auto-clear timer is scheduled
RenderDone(r) ==
    /\ r \in DOMAIN renders
    /\ timers' = Schedule(timers, "display", KEYWORD_DEFINITION, renders[r].stale)
    /\ renders' = RemoveAt(renders, r)
    /\ last' = Step("other", "", None, FALSE)
    /\ UNCHANGED <<isRecording, keywordDefinitions, sortedKeywords, keywordCache,
                   recentKeywords, lastProcessedText, isShowingDefinition, collecting,
                   setups, sinceShown, scanned>>
    /\ UNCHANGED agentVars

\* faulty variant: the catch block leaves the flag set
RenderFail_KeepsFlag(r) ==
    /\ r \in DOMAIN renders
    /\ renders' = RemoveAt(renders, r)
    /\ last' = Step("other", "", None, FALSE)
    /\ UNCHANGED <<isRecording, keywordDefinitions, sortedKeywords, keywordCache,
                   recentKeywords, lastProcessedText, collecting, setups, timers,
                   sinceShown, scanned, isShowingDefinition>>
    /\ UNCHANGED agentVars

\* showTextWall throws: the catch block resets the flag
RenderFail(r) ==
    /\ r \in DOMAIN renders
    /\ isShowingDefinition' = FALSE
    /\ renders' = RemoveAt(renders, r)
    /\ last' = Step("other", "", None, FALSE)
    /\ UNCHANGED <<isRecording, keywordDefinitions, sortedKeywords, keywordCache,
                   recentKeywords, lastProcessedText, collecting, setups, timers,
                   sinceShown, scanned>>
    /\ UNCHANGED agentVars

(***************************************************************************)
(* Timers and time                                                        *)
(***************************************************************************)
\* a setTimeout callback runs when its delay has elapsed
FireTimer(t) ==
    /\ BagIn(t, timers)
    /\ t.remaining = 0
    /\ IF t.kind = "recency"
       THEN recentKeywords' = {} /\ UNCHANGED isShowingDefinition
       ELSE isShowingDefinition' = FALSE /\ UNCHANGED recentKeywords
    /\ timers' = Cancel(timers, t)
    /\ last' = Step("timer", t.kind, None, t.stale)
    /\ UNCHANGED <<isRecording, keywordDefinitions, sortedKeywords, keywordCache,
                   lastProcessedText, collecting, setups, renders, sinceShown, scanned>>
    /\ UNCHANGED agentVars

\* time passes; a timer that is due fires before more time passes
Tick ==
    /\ \A t \in BagToSet(timers) : t.remaining >= TickMs
    /\ timers' = Elapse(timers, TickMs)
    /\ sinceShown' = [k \in DOMAIN sinceShown |-> Min(COOLDOWN_MS, sinceShown[k] + TickMs)]
    /\ last' = Step("other", "", None, FALSE)
    /\ UNCHANGED <<isRecording, keywordDefinitions, sortedKeywords, keywordCache,
                   recentKeywords, lastProcessedText, isShowingDefinition, collecting,
                   setups, renders, scanned>>
    /\ UNCHANGED agentVars

Next ==
    \/ StartRecording
    \/ \E l \in DOMAIN Lectures : TopicCollected(l)
    \/ \E p \in 1..MaxSetups : GenerateDefinition(p)
    \/ \E p \in 1..MaxSetups : BuildKeywordCache(p)
    \/ \E p \in 1..MaxSetups : SetupError(p)
    \/ \E p \in 1..MaxSetups : BeginRecording(p)
    \/ StopRecording
    \/ \E text \in Fragments, isFinal \in BOOLEAN : OnTranscription(text, isFinal)
    \/ \E r \in DOMAIN renders : RenderDone(r)
    \/ \E r \in DOMAIN renders : RenderFail(r)
    \/ \E t \in BagToSet(timers) : FireTimer(t)
    \/ Tick

Spec == Init /\ [][Next]_vars

(***************************************************************************)
(* The matcher on its own: a lecture whose index has just been built and  *)
(* is being recorded receives one of many fragments                       *)
(***************************************************************************)
W_the == <<"t","h","e">>

MaxPad == 3

PadWords == {T_field, W_the}

PadSeqs == UNION {[1..n -> PadWords] : n \in 0..MaxPad}

\* every fragment made of up to MaxPad words, "quantum field theory", and up
\* to MaxPad more words
MatchFragments == {join(pre \o <<K_qft>> \o suf, <<" ">>) : pre \in PadSeqs, suf \in PadSeqs}

MatchLectures == {1}

\* keywordDefinitions after the loop of onTopicCollected over the first n keywords
RECURSIVE DefinitionsOf(_, _)
DefinitionsOf(lecture, n) ==
    IF n = 0 THEN <<>>
    ELSE MapSet(DefinitionsOf(lecture, n - 1), toLowerCase(lecture[n][1]), lecture[n][2])

\* the state right after startRecording, onTopicCollected and beginRecording
InitMatch ==
    \E l \in MatchLectures :
        /\ isRecording = TRUE
        /\ keywordDefinitions = DefinitionsOf(Lectures[l], Len(Lectures[l]))
        /\ sortedKeywords = SortByLength(keywordDefinitions)
        /\ keywordCache = EmptyCache
        /\ recentKeywords = {}
        /\ lastProcessedText = <<>>
        /\ isShowingDefinition = FALSE
        /\ collecting = FALSE
        /\ setups = <<>>
        /\ renders = <<>>
        /\ timers = EmptyBag
        /\ sinceShown = <<>>
        /\ scanned = <<>>
        /\ last = Step("other", "", None, FALSE)
        /\ AgentsInit

NextMatch == \E text \in MatchFragments : OnTranscription(text, TRUE)

SpecMatch == InitMatch /\ [][NextMatch]_vars

(***************************************************************************)
(* Properties                                                             *)
(***************************************************************************)
\* the displays that have begun and not ended: a display ends when its
\* auto-clear timer fires or when its render call fails
OpenDisplays == Len(renders) + PendingCount("display")

\* a definition is rendered in this step
Surfacing == Len(renders') > Len(renders)

SurfacedKeyword == renders'[Len(renders')].keyword

\* C1: single active display. At most one display is open at any time: after a
\* term has been surfaced, no other definition is rendered until the auto-clear
\* timer of that display has fired or its render call has failed.
C1_SingleActiveDisplay == OpenDisplays <= 1

\* a fragment arrived while recording with a display open, and was dropped
C1_Witness ==
    /\ last.op = "fragment"
    /\ last.path = "showing"
    /\ isRecording
    /\ isShowingDefinition
    /\ PendingCount("display") = 1

\* C2: recency invariant. Every render, on the cache-miss and on the cache-hit
\* path, is for a keyword that was not in recentKeywords before the step, and
\* the step puts it there; a keyword leaves recentKeywords only when a recency
\* timer fires or a lecture is started.
C2_RecentNeverSurfaced ==
    [][/\ Surfacing => /\ SurfacedKeyword \notin recentKeywords
                       /\ SurfacedKeyword \in recentKeywords'
       /\ (recentKeywords \ recentKeywords' # {}) =>
            \/ last'.op = "start"
            \/ last'.op = "timer" /\ last'.path = "recency"]_vars

\* a keyword has just been surfaced from a cache hit and is now recent
C2_Witness ==
    /\ last.op = "fragment"
    /\ last.path = "hit"
    /\ last.shown # None
    /\ last.shown \in recentKeywords

\* C3: at most once per cooldown window. Within one lecture, a keyword is not
\* surfaced again before the cooldown duration has passed since it was last
\* surfaced.
C3_CooldownSeparation ==
    [][(Surfacing /\ SurfacedKeyword \in DOMAIN sinceShown)
            => sinceShown[SurfacedKeyword] >= COOLDOWN_MS]_vars

\* the keywords of an index
IndexKeywords(sortedKw) == {sortedKw[i][1] : i \in DOMAIN sortedKw}

\* the step handles a fragment on the given path of detectKeywordsInText
FragmentStep(path) == last'.op = "fragment" /\ last'.path = path

\* C5: determinism. With the display idle, what a fragment surfaces depends on
\* the Term Index, the Recency Set and the normalized fragment only: it is what
\* the scan of that fragment yields for that index and that recency set,
\* whatever was processed earlier in the lecture.
C5_Determinism ==
    (isRecording /\ ~isShowingDefinition /\ sortedKeywords # <<>>) =>
        \A text \in Fragments :
            LET normalizedText == normalizeText(text)
            IN  detectKeywordsInText(normalizedText, sortedKeywords,
                                     keywordCache, recentKeywords).shown
                    = ScanText(normalizedText, sortedKeywords, recentKeywords).shown

\* C6: cache correctness. Between two clearings of the cache a normalized text
\* is scanned at most once, only when it has no entry, and an entry once
\* inserted is never overwritten or removed until the cache is cleared.
C6_CacheCorrectness ==
    [][/\ \/ keywordCache' = EmptyCache
          \/ \A k \in DOMAIN keywordCache :
                k \in DOMAIN keywordCache' /\ keywordCache'[k] = keywordCache[k]
       /\ \A k \in DOMAIN scanned' : scanned'[k] = 1 /\ k \in DOMAIN keywordCache'
       /\ FragmentStep("miss") =>
            \E k \in DOMAIN scanned' : k \notin DOMAIN keywordCache]_vars

\* both normalized texts have been scanned once, and a later fragment with one
\* of these normalized texts has been answered from the cache
C6_Witness ==
    /\ last.op = "fragment"
    /\ last.path = "hit"
    /\ DOMAIN keywordCache = {normalizeText(T_field), normalizeText(T_The_field)}
    /\ \A k \in DOMAIN keywordCache : scanned[k] = 1

\* C7 as stated: a cache hit never modifies the Recency Set.
C7_HitLeavesRecent ==
    [][FragmentStep("hit") => recentKeywords' = recentKeywords]_vars

\* C7 as amended: a cache hit runs no scan and leaves the cache alone; it adds
\* to the Recency Set exactly the keyword it surfaces, which was not recent,
\* and leaves the Recency Set alone when it surfaces nothing.
C7_HitMarksOnlySurfaced ==
    [][FragmentStep("hit") =>
         /\ keywordCache' = keywordCache
         /\ scanned' = scanned
         /\ IF Surfacing
            THEN /\ SurfacedKeyword \notin recentKeywords
                 /\ recentKeywords' = recentKeywords \cup {SurfacedKeyword}
            ELSE recentKeywords' = recentKeywords]_vars

\* a cache hit has surfaced a keyword and made it the only recent one
C7_Witness ==
    /\ last.op = "fragment"
    /\ last.path = "hit"
    /\ last.shown # None
    /\ recentKeywords = {last.shown}
    /\ Len(renders) = 1

\* C8: no stale match across lectures. Whenever sortedKeywords is replaced the
\* cache is emptied; an entry is inserted only as the result of scanning its
\* key against the current index; and a fragment surfaces only a keyword of
\* the current index.
C8_NoStaleMatch ==
    [][/\ sortedKeywords' # sortedKeywords => keywordCache' = EmptyCache
       /\ \A k \in DOMAIN keywordCache' \ DOMAIN keywordCache :
            keywordCache'[k] = ScanText(k, sortedKeywords', recentKeywords).entry
       /\ Surfacing => SurfacedKeyword \in IndexKeywords(sortedKeywords')]_vars

\* in a lecture started after an earlier one, a fragment naming a keyword of
\* the earlier index only has been scanned and has surfaced nothing
C8_Witness ==
    /\ isRecording
    /\ IndexKeywords(sortedKeywords) = {K_theory}
    /\ \E t \in BagToSet(timers) : t.stale
    /\ last.op = "fragment"
    /\ last.path = "miss"
    /\ last.shown = None
    /\ normalizeText(T_field) \in DOMAIN keywordCache
    /\ ~keywordCache[normalizeText(T_field)].isMatch

\* C9: timers of a previous lecture are cancelled by the start of a lecture, so
\* none of them fires later and changes recentKeywords or isShowingDefinition.
C9_NoStaleTimerEffect ==
    [][(last'.op = "timer" /\ last'.stale) =>
            /\ recentKeywords' = recentKeywords
            /\ isShowingDefinition' = isShowingDefinition]_vars

\* C10: immediately after stopRecording the display is idle and no auto-clear
\* timer is pending.
C10_StopIdlesDisplay ==
    last.op = "stop" => (~isShowingDefinition /\ PendingCount("display") = 0)

\* C4: longest-term preference. With the index {"field", "quantum field
\* theory"}, an empty Recency Set and an idle display, a fragment containing
\* the words "quantum field theory" surfaces "quantum field theory".
C4_LongestTermPreferred ==
    (last.op = "fragment" /\ last.path = "miss") => last.shown = K_qft

\* C11: immediately after stopRecording the Recency Set and the Match Cache
\* are empty.
C11_StopClearsRecencyAndCache ==
    last.op = "stop" => (recentKeywords = {} /\ keywordCache = EmptyCache)

(***************************************************************************)
(* The lecture life cycle on its own: start and stop commands, topic      *)
(* collection and overlapping calls of onTopicCollected                   *)
(***************************************************************************)
MaxOverlap == 2

NextSetup ==
    \/ StartRecording
    \/ \E l \in DOMAIN Lectures : OnTopicCollected(l, MaxOverlap)
    \/ \E p \in 1..MaxOverlap : GenerateDefinition(p)
    \/ \E p \in 1..MaxOverlap : BuildKeywordCache(p)
    \/ \E p \in 1..MaxOverlap : SetupError(p)
    \/ \E p \in 1..MaxOverlap : BeginRecording(p)
    \/ StopRecording

SpecSetup == Init /\ [][NextSetup]_vars

\* C12: the Term Index is read-only while recording: a step that begins and
\* ends with isRecording set does not reassign sortedKeywords.
C12_IndexReadOnlyWhileRecording ==
    [][(isRecording /\ isRecording') => sortedKeywords' = sortedKeywords]_vars

(***************************************************************************)
(* buildKeywordCache on its own: keywordDefinitions holds up to           *)
(* MaxSortEntries entries with distinct keys when the index is built      *)
(***************************************************************************)
K_big_bang == <<"b","i","g"," ","b","a","n","g">>

K_wavelength == <<"w","a","v","e","l","e","n","g","t","h">>

\* keys of keywordDefinitions (lower case, as onTopicCollected stores them)
SortKeywords == {T_field, K_qft, K_theory, K_big_bang, K_wavelength}

MaxSortEntries == 3

\* the contents keywordDefinitions can have: distinct keys in insertion order
SortInputs ==
    {[i \in DOMAIN ks |-> <<ks[i], "def">>] :
        ks \in {s \in UNION {[1..n -> SortKeywords] : n \in 0..MaxSortEntries} :
                    \A i, j \in DOMAIN s : i # j => s[i] # s[j]}}

\* onTopicCollected has filled keywordDefinitions and is about to build the index
InitSort ==
    /\ keywordDefinitions \in SortInputs
    /\ setups = <<[lecture |-> 1, next |-> 1, pc |-> "save"]>>
    /\ isRecording = FALSE
    /\ sortedKeywords = <<>>
    /\ keywordCache = EmptyCache
    /\ recentKeywords = {}
    /\ lastProcessedText = <<>>
    /\ isShowingDefinition = FALSE
    /\ collecting = FALSE
    /\ renders = <<>>
    /\ timers = EmptyBag
    /\ sinceShown = <<>>
    /\ scanned = <<>>
    /\ last = Step("other", "", None, FALSE)
    /\ AgentsInit

NextSort == BuildKeywordCache(1)

SpecSort == InitSort /\ [][NextSort]_vars

\* the number of words of the normalized term
WordCount(keyword) == Len(splitWords(normalizeText(keyword), <<>>))

\* C13: after buildKeywordCache, sortedKeywords is ordered by descending word
\* count of the normalized term.
C13_SortedByWordCount ==
    \A i \in 1..(Len(sortedKeywords) - 1) :
        WordCount(sortedKeywords[i][1]) >= WordCount(sortedKeywords[i + 1][1])

(***************************************************************************)
(* Progress: every awaited render call returns or throws, time passes and *)
(* a timer that is due fires                                              *)
(***************************************************************************)
RenderSettles == \E r \in DOMAIN renders : RenderDone(r) \/ RenderFail(r)

TimerFires == \E t \in BagToSet(timers) : FireTimer(t)

SpecLive ==
    /\ Init
    /\ [][Next]_vars
    /\ WF_vars(RenderSettles)
    /\ WF_vars(TimerFires)
    /\ WF_vars(Tick)

\* C14: every render of a definition moves the display from idle to showing,
\* and whenever isShowingDefinition is true it later becomes false, given
\* that render calls return or throw and scheduled timers fire.
C14_DisplayReturnsToIdle ==
    /\ [][Surfacing => (~isShowingDefinition /\ isShowingDefinition')]_vars
    /\ isShowingDefinition ~> ~isShowingDefinition

\* a display has been ended by its own auto-clear timer
C14_Witness ==
    /\ last.op = "timer"
    /\ last.path = "display"
    /\ ~last.stale
    /\ ~isShowingDefinition
    /\ renders = <<>>

\* C15: a fragment that arrives while a definition is showing, the time the
\* handler of the surfacing fragment is suspended in the render call included,
\* changes neither the Match Cache nor the Recency Set, schedules no timer and
\* renders nothing.
C15_FragmentWhileShowingIsNoOp ==
    [][(last'.op = "fragment" /\ isShowingDefinition) =>
            /\ last'.path \in {"showing", "empty", "idle", "partial"}
            /\ UNCHANGED <<keywordCache, recentKeywords, timers, renders,
                           isShowingDefinition, lastProcessedText, scanned>>]_vars

\* a matching fragment arrived while recording, while the render call of the
\* displayed definition was still awaited, and was dropped
C15_Witness ==
    /\ last.op = "fragment"
    /\ last.path = "showing"
    /\ isRecording
    /\ Len(renders) = 1
    /\ keywordCache # EmptyCache

\* the scan of the fragment would surface a keyword: the fragment has no cache
\* entry and contains a keyword of the index that is not recent
WouldSurface(text) ==
    /\ sortedKeywords # <<>>
    /\ Len(normalizeText(text)) >= MinTextLength
    /\ normalizeText(text) \notin DOMAIN keywordCache
    /\ ScanText(normalizeText(text), sortedKeywords, recentKeywords).shown # None

\* C16: while recording with the display idle, a partial (isFinal = false)
\* fragment that contains a non-recent keyword of the index surfaces it.
C16_PartialsScanned ==
    [][\A text \in Fragments :
        (/\ OnTranscription(text, FALSE)
         /\ isRecording
         /\ ~isShowingDefinition
         /\ WouldSurface(text)) => Surfacing]_vars

\* the fragment contains a keyword of the index that is not recent
MatchesNonRecent(text) ==
    /\ sortedKeywords # <<>>
    /\ Len(normalizeText(text)) >= MinTextLength
    /\ ScanText(normalizeText(text), sortedKeywords, recentKeywords).shown # None

\* C17: a matching fragment (display idle, term not recent) that arrives as
\* partial events and then as a final event surfaces exactly one definition in
\* total. A partial event changes no variable but the history, so after the
\* partial events nothing has been surfaced and the state is the initial one:
\* the final event, which follows a partial event, has to surface one.
C17_RepeatedFragmentSurfacesOnce ==
    [][\A text \in Fragments :
        (/\ last.op = "fragment" /\ last.path = "partial"
         /\ OnTranscription(text, TRUE)
         /\ isRecording
         /\ ~isShowingDefinition
         /\ MatchesNonRecent(text)) => Len(renders') = Len(renders) + 1]_vars

(***************************************************************************)
(* The scenario of a lecture on "quantum field theory" and "theory": the  *)
(* index has just been built and the lecture is being recorded            *)
(***************************************************************************)
T_lets_discuss ==
    <<"l","e","t","'","s"," ","d","i","s","c","u","s","s"," ","q","u","a","n","t","u","m"," ","f","i","e","l","d"," ","t","h","e","o","r","y"," ","t","o","d","a","y">>

\* the <<keyword, definition>> pairs generated for the topic
ScenarioLecture == << <<K_qft, "def1">>, <<K_theory, "def2">> >>

ScenarioFragments == {T_lets_discuss, K_qft}

\* the state right after startRecording, onTopicCollected and beginRecording
InitScenario ==
    /\ isRecording = TRUE
    /\ keywordDefinitions = DefinitionsOf(ScenarioLecture, Len(ScenarioLecture))
    /\ sortedKeywords = SortByLength(keywordDefinitions)
    /\ keywordCache = EmptyCache
    /\ recentKeywords = {}
    /\ lastProcessedText = <<>>
    /\ isShowingDefinition = FALSE
    /\ collecting = FALSE
    /\ setups = <<>>
    /\ renders = <<>>
    /\ timers = EmptyBag
    /\ sinceShown = <<>>
    /\ scanned = <<>>
    /\ last = Step("other", "", None, FALSE)
    /\ AgentsInit

NextScenario ==
    \/ \E text \in ScenarioFragments : OnTranscription(text, TRUE)
    \/ RenderSettles
    \/ TimerFires
    \/ Tick

SpecScenario == InitScenario /\ [][NextScenario]_vars

\* the step handles the final fragment "let's discuss quantum field theory
\* today" while recording, with the display idle and no keyword recent
ScenarioStep ==
    /\ OnTranscription(T_lets_discuss, TRUE)
    /\ isRecording
    /\ ~isShowingDefinition
    /\ recentKeywords = {}

\* C18: with the index {"quantum field theory": "def1", "theory": "def2"}, an
\* empty Recency Set and an idle display, the final fragment "let's discuss
\* quantum field theory today" surfaces "quantum field theory" with "def1".
C18_ScenarioSurfacesLongest ==
    [][ScenarioStep =>
            /\ Surfacing
            /\ SurfacedKeyword = K_qft
            /\ renders'[Len(renders')].definition = "def1"]_vars

\* C18 where the fragment has no cache entry: the scan surfaces "quantum field
\* theory" with "def1".
C18_ScenarioOnCacheMiss ==
    [][(ScenarioStep /\ normalizeText(T_lets_discuss) \notin DOMAIN keywordCache) =>
            /\ Surfacing
            /\ SurfacedKeyword = K_qft
            /\ renders'[Len(renders')].definition = "def1"]_vars

(***************************************************************************)
(* normalizeText on its own: lastProcessedText holds a text of up to      *)
(* MaxNormLen characters, or the example text, and is normalized          *)
(***************************************************************************)
T_Wave_Particle ==
    <<"W","a","v","e","-","P","a","r","t","i","c","l","e"," "," "," ","D","u","a","l","i","t","y","!","!">>

T_wave_particle_duality ==
    <<"w","a","v","e"," ","p","a","r","t","i","c","l","e"," ","d","u","a","l","i","t","y">>

\* an upper-case and a lower-case letter, punctuation, an underscore and two
\* kinds of white space
NormChars == {"A", "b", "-", "_", " ", "\t"}

MaxNormLen == 4

NormInputs == UNION {[1..n -> NormChars] : n \in 0..MaxNormLen} \cup {T_Wave_Particle}

InitNorm ==
    /\ lastProcessedText \in NormInputs
    /\ isRecording = FALSE
    /\ keywordDefinitions = <<>>
    /\ sortedKeywords = <<>>
    /\ keywordCache = EmptyCache
    /\ recentKeywords = {}
    /\ isShowingDefinition = FALSE
    /\ collecting = FALSE
    /\ setups = <<>>
    /\ renders = <<>>
    /\ timers = EmptyBag
    /\ sinceShown = <<>>
    /\ scanned = <<>>
    /\ last = Step("other", "", None, FALSE)
    /\ AgentsInit

\* the text is replaced by its normal form; the history keeps the argument
ApplyNormalize ==
    /\ lastProcessedText' = normalizeText(lastProcessedText)
    /\ last' = Step("normalize", "", lastProcessedText, FALSE)
    /\ UNCHANGED <<isRecording, keywordDefinitions, sortedKeywords, keywordCache,
                   recentKeywords, isShowingDefinition, collecting, setups, renders,
                   timers, sinceShown, scanned>>
    /\ UNCHANGED agentVars

SpecNorm == InitNorm /\ [][ApplyNormalize]_vars

\* C19: normalizeText is idempotent, and it maps "Wave-Particle   Duality!!"
\* to "wave particle duality".
C19_NormalizeIdempotent ==
    last.op = "normalize" =>
        /\ normalizeText(lastProcessedText) = lastProcessedText
        /\ normalizeText(normalizeText(last.shown)) = normalizeText(last.shown)
        /\ last.shown = T_Wave_Particle => lastProcessedText = T_wave_particle_duality

\* the example text has been normalized
C19_Witness ==
    /\ last.op = "normalize"
    /\ last.shown = T_Wave_Particle
    /\ lastProcessedText = T_wave_particle_duality

\* C20: with an empty Term Index, a fragment (any text, partial or final)
\* surfaces nothing and leaves the Match Cache, the Recency Set, the pending
\* timers and the display state unchanged.
C20_EmptyIndexIsNoOp ==
    [][(last'.op = "fragment" /\ sortedKeywords = <<>>) =>
            /\ ~Surfacing
            /\ last'.path \in {"empty", "idle", "partial"}
            /\ UNCHANGED <<keywordCache, recentKeywords, timers, renders,
                           isShowingDefinition, lastProcessedText, scanned>>]_vars

\* a final fragment arrived while recording with an empty index, with timers
\* pending, and was dropped
C20_Witness ==
    /\ last.op = "fragment"
    /\ last.path = "empty"
    /\ isRecording
    /\ sortedKeywords = <<>>
    /\ timers # EmptyBag

\* the combinations <<window size, start offset, index position>> of a
\* non-recent keyword and a window of the words that the keyword matches
Combinations(words, sortedKw, recent) ==
    {c \in (1..Min(MaxWindowSize, Len(words))) \X (0..Len(words)) \X DOMAIN sortedKw :
        /\ c[2] <= Len(words) - c[1]
        /\ sortedKw[c[3]][1] \notin recent
        /\ KeywordMatch(WindowAt(words, c[1], c[2]), c[1], sortedKw[c[3]][1]).isMatch}

\* the order in which the scan tries the combinations
TriedBefore(c, d) ==
    \/ c[1] > d[1]
    \/ c[1] = d[1] /\ c[2] < d[2]
    \/ c[1] = d[1] /\ c[2] = d[2] /\ c[3] < d[3]

\* the step is a cache miss that surfaces what the combination c says, and
\* nothing else
SurfacesCombination(k, c) ==
    /\ Len(renders') = Len(renders) + 1
    /\ SurfacedKeyword = sortedKeywords[c[3]][1]
    /\ renders'[Len(renders')].definition = sortedKeywords[c[3]][2]
    /\ recentKeywords' = recentKeywords \cup {sortedKeywords[c[3]][1]}
    /\ keywordCache'[k] = KeywordMatch(WindowAt(splitWords(k, <<>>), c[1], c[2]), c[1],
                                       sortedKeywords[c[3]][1])

\* C21: first-acceptable policy. On a cache miss the surfaced term is the
\* first acceptable combination in the order window size descending, start
\* offset ascending, index order (recent terms skipped); nothing is surfaced
\* when there is none.
C21_FirstAcceptable ==
    [][FragmentStep("miss") =>
        \A k \in DOMAIN keywordCache' \ DOMAIN keywordCache :
            LET C == Combinations(splitWords(k, <<>>), sortedKeywords, recentKeywords)
            IN  IF C = {}
                THEN ~Surfacing /\ recentKeywords' = recentKeywords
                ELSE \E c \in C :
                        /\ \A d \in C \ {c} : TriedBefore(c, d)
                        /\ SurfacesCombination(k, c)]_vars

\* a scan has skipped the recent "quantum field theory" and surfaced "theory"
C21_Witness ==
    /\ last.op = "fragment"
    /\ last.path = "miss"
    /\ last.shown = K_theory
    /\ K_qft \in recentKeywords

\* the keywords of the index whose normalized text occurs verbatim in the
\* normalized fragment
VerbatimKeywords(text) ==
    {kw \in IndexKeywords(sortedKeywords) :
        /\ normalizeText(kw) # <<>>
        /\ includes(normalizeText(text), normalizeText(kw))}

\* C22: re-detection after cooldown. With the Recency Set cleared and the
\* display idle, a final fragment that contains a term verbatim surfaces such
\* a term, whether or not the same normalized fragment was processed before.
C22_RedetectionAfterCooldown ==
    [][\A text \in Fragments :
        (/\ OnTranscription(text, TRUE)
         /\ isRecording
         /\ ~isShowingDefinition
         /\ recentKeywords = {}
         /\ VerbatimKeywords(text) # {})
            => (Surfacing /\ SurfacedKeyword \in VerbatimKeywords(text))]_vars

(***************************************************************************)
(* The replay of a cached permissive match: a lecture on "quantum field   *)
(* theory" and "field theory" in which the fragment "field theory" recurs *)
(***************************************************************************)
K_field_theory == <<"f","i","e","l","d"," ","t","h","e","o","r","y">>

ReplayLecture == << <<K_qft, "def1">>, <<K_field_theory, "def2">> >>

\* the state right after startRecording, onTopicCollected and beginRecording
\* for the generated <<keyword, definition>> pairs
RecordingOf(lecture) ==
    /\ isRecording = TRUE
    /\ keywordDefinitions = DefinitionsOf(lecture, Len(lecture))
    /\ sortedKeywords = SortByLength(keywordDefinitions)
    /\ keywordCache = EmptyCache
    /\ recentKeywords = {}
    /\ lastProcessedText = <<>>
    /\ isShowingDefinition = FALSE
    /\ collecting = FALSE
    /\ setups = <<>>
    /\ renders = <<>>
    /\ timers = EmptyBag
    /\ sinceShown = <<>>
    /\ scanned = <<>>
    /\ last = Step("other", "", None, FALSE)
    /\ AgentsInit

InitReplay == RecordingOf(ReplayLecture)

NextReplay ==
    \/ OnTranscription(K_field_theory, TRUE)
    \/ RenderSettles
    \/ TimerFires
    \/ Tick

SpecReplay == InitReplay /\ [][NextReplay]_vars

\* C23: cache replay is faithful. The entry of the fragment "field theory" is
\* created by a scan that surfaces "quantum field theory" (its pattern
\* "field theory" matches); every hit of that entry that surfaces a term
\* surfaces "quantum field theory".
C23_ReplayFaithful ==
    [][/\ FragmentStep("miss") => (Surfacing /\ SurfacedKeyword = K_qft)
       /\ (FragmentStep("hit") /\ Surfacing) => SurfacedKeyword = K_qft]_vars

\* the creation of the entry: every scan of the fragment surfaces "quantum
\* field theory" and stores the pattern as the matched text
ReplayEntryCreation ==
    [][FragmentStep("miss") =>
            /\ Surfacing
            /\ SurfacedKeyword = K_qft
            /\ keywordCache'[K_field_theory] = Matched(K_field_theory)]_vars

(***************************************************************************)
(* The matching rules on their own: lectures whose terms exercise one     *)
(* rule each, and the fragments a lecturer says about them                *)
(***************************************************************************)
K_ideal_gas_law == <<"i","d","e","a","l"," ","g","a","s"," ","l","a","w">>

K_law_of_motion == <<"l","a","w"," ","o","f"," ","m","o","t","i","o","n">>

K_x_ray == <<"x","-","r","a","y">>

K_art == <<"a","r","t">>

K_punctuation == <<"!","!","!">>

T_gas_law == <<"g","a","s"," ","l","a","w">>

T_theory_of_quantum_field ==
    <<"t","h","e","o","r","y"," ","o","f"," ","q","u","a","n","t","u","m"," ",
      "f","i","e","l","d">>

T_motion_of_law == <<"m","o","t","i","o","n"," ","o","f"," ","l","a","w">>

T_x_ray == <<"x"," ","r","a","y">>

T_big_bang == <<"b","i","g","-","b","a","n","g">>

T_particle == <<"p","a","r","t","i","c","l","e">>

\* the <<keyword, definition>> pairs generated for a lecture, and the
\* fragments said in it
RuleCases ==
    { [lecture |-> << <<K_ideal_gas_law, "def1">>, <<K_qft, "def2">>,
                      <<K_law_of_motion, "def3">> >>,
       fragments |-> {T_gas_law, K_field_theory, T_theory_of_quantum_field,
                      T_motion_of_law}],
      [lecture |-> << <<K_x_ray, "def1">>, <<K_big_bang, "def2">> >>,
       fragments |-> {T_x_ray, K_x_ray, T_big_bang, K_big_bang}],
      [lecture |-> << <<K_art, "def1">> >>,
       fragments |-> {T_particle, K_art}],
      [lecture |-> << <<K_punctuation, "def1">>, <<K_qft, "def2">> >>,
       fragments |-> {T_particle, K_field_theory}] }

InitRules == \E c \in RuleCases : RecordingOf(c.lecture)

\* the fragments of the lecture whose terms are in the index
Said(text) ==
    \E c \in RuleCases :
        /\ keywordDefinitions = DefinitionsOf(c.lecture, Len(c.lecture))
        /\ text \in c.fragments

RuleFragments == UNION {c.fragments : c \in RuleCases}

NextRules ==
    \/ \E text \in RuleFragments : Said(text) /\ OnTranscription(text, TRUE)
    \/ RenderSettles
    \/ TimerFires
    \/ Tick

SpecRules == InitRules /\ [][NextRules]_vars

\* the words of a term, as isPermissiveMatch splits them
KeywordWords(keyword) == splitWords(normalizeText(keyword), <<>>)

\* the windows of the two nested loops: <<windowSize, start offset>>
WindowsOf(words) ==
    {w \in (1..Min(MaxWindowSize, Len(words))) \X (0..Len(words)) :
        w[2] <= Len(words) - w[1]}

\* the normalized fragment scanned in this step (the key of the new cache entry)
ScannedNow == DOMAIN keywordCache' \ DOMAIN keywordCache

\* "<second-to-last word> <last word>" of a multi-word term
PatternOf(keyword) ==
    KeywordWords(keyword)[Len(KeywordWords(keyword)) - 1] \o <<" ">>
        \o KeywordWords(keyword)[Len(KeywordWords(keyword))]

\* C24: pattern-suffix rule. For a multi-word term whose last word is one of
\* theory, principle, equation, law, effect, model, duality, every window of
\* more than one word that contains "<second-to-last> <last>" verbatim is
\* accepted for that term; a scan with such a window and the term not recent
\* therefore surfaces a term.
C24_PatternSuffixAccepted ==
    [][FragmentStep("miss") =>
        \A k \in ScannedNow :
            \A kw \in IndexKeywords(sortedKeywords) :
                \A w \in WindowsOf(splitWords(k, <<>>)) :
                    (/\ Len(KeywordWords(kw)) >= 2
                     /\ KeywordWords(kw)[Len(KeywordWords(kw))] \in PatternSuffixes
                     /\ w[1] > 1
                     /\ includes(WindowAt(splitWords(k, <<>>), w[1], w[2]), PatternOf(kw)))
                        => /\ KeywordMatch(WindowAt(splitWords(k, <<>>), w[1], w[2]),
                                           w[1], kw).isMatch
                           /\ kw \notin recentKeywords => Surfacing]_vars

\* the same for the suffixes longer than four characters, the ones the length
\* test of the rule lets through
PatternLongSuffixAccepted ==
    [][FragmentStep("miss") =>
        \A k \in ScannedNow :
            \A kw \in IndexKeywords(sortedKeywords) :
                \A w \in WindowsOf(splitWords(k, <<>>)) :
                    (/\ Len(KeywordWords(kw)) >= 2
                     /\ KeywordWords(kw)[Len(KeywordWords(kw))] \in PatternSuffixes
                     /\ Len(KeywordWords(kw)[Len(KeywordWords(kw))]) > PatternMinLength
                     /\ w[1] > 1
                     /\ includes(WindowAt(splitWords(k, <<>>), w[1], w[2]), PatternOf(kw)))
                        => /\ KeywordMatch(WindowAt(splitWords(k, <<>>), w[1], w[2]),
                                           w[1], kw).isMatch
                           /\ kw \notin recentKeywords => Surfacing]_vars

\* the two texts differ at most in hyphens written for spaces, and in case
SameUpToHyphens(a, b) == replaceHyphens(toLowerCase(a)) = replaceHyphens(toLowerCase(b))

LastWords(keyword) ==
    {KeywordWords(keyword)[i] :
        i \in (Len(KeywordWords(keyword)) - Min(SignificantCount, Len(KeywordWords(keyword))) + 1)
              .. Len(KeywordWords(keyword))}

\* all the words occur in the window, first occurrences less than 50 characters apart
AllNear(window, ws) ==
    /\ \A word \in ws : includes(window, word)
    /\ \A word \in ws : \A other \in ws :
            indexOf(window, word) - indexOf(window, other) < ProximityBound

\* C26: the significant-suffix rule is order- and adjacency-insensitive. For a
\* multi-word term whose last min(3, wordCount) words are each longer than 2
\* characters, every window of more than one word that contains all of them,
\* first occurrences less than 50 characters apart, is accepted, so a scan
\* with such a window surfaces a term unless the term is recent; the scan of
\* "theory of quantum field" surfaces "quantum field theory".
C26_SignificantAnyOrder ==
    [][/\ FragmentStep("miss") =>
            \A k \in ScannedNow :
                \A kw \in IndexKeywords(sortedKeywords) :
                    \A w \in WindowsOf(splitWords(k, <<>>)) :
                        (/\ Len(KeywordWords(kw)) >= 2
                         /\ \A word \in LastWords(kw) : Len(word) > 2
                         /\ w[1] > 1
                         /\ AllNear(WindowAt(splitWords(k, <<>>), w[1], w[2]), LastWords(kw)))
                            => /\ KeywordMatch(WindowAt(splitWords(k, <<>>), w[1], w[2]),
                                               w[1], kw).isMatch
                               /\ kw \notin recentKeywords => Surfacing
       /\ (/\ FragmentStep("miss")
           /\ ScannedNow = {T_theory_of_quantum_field}
           /\ K_qft \notin recentKeywords)
                => Surfacing /\ SurfacedKeyword = K_qft]_vars

\* the scan of "theory of quantum field" has surfaced "quantum field theory"
C26_Witness ==
    /\ last.op = "fragment"
    /\ last.path = "miss"
    /\ last.shown = K_qft
    /\ T_theory_of_quantum_field \in DOMAIN keywordCache
    /\ keywordCache[T_theory_of_quantum_field] = Matched(K_qft)
    /\ K_field_theory \notin DOMAIN keywordCache

C28_WholeWordOnly ==
    [][(last'.op = "fragment" /\ Surfacing /\ Len(KeywordWords(SurfacedKeyword)) = 1)
        => \E text \in RuleFragments :
                /\ Said(text)
                /\ OnTranscription(text, TRUE)
                /\ \E i \in DOMAIN splitWords(normalizeText(text), <<>>) :
                        splitWords(normalizeText(text), <<>>)[i]
                            = normalizeText(SurfacedKeyword)]_vars

\* C29: malformed entries degrade to no match. A term of the index whose
\* normalized text is empty (a term made only of punctuation) is never
\* surfaced, whatever the fragment.
C29_EmptyTermNeverSurfaced ==
    [][Surfacing => normalizeText(SurfacedKeyword) # <<>>]_vars

\* C30: the cooldown always ends. Time never advances past the cooldown
\* duration with a term still in the Recency Set: a term that was added 10 s
\* ago has been removed, by the clear timer scheduled for its fragment, before
\* more time passes.
C30_CooldownEnds ==
    [][Tick => \A kw \in recentKeywords :
                    kw \in DOMAIN sinceShown /\ sinceShown[kw] < COOLDOWN_MS]_vars

\* a term added 10 s ago is still recent and its clear timer is due
C30_Witness ==
    /\ \E kw \in recentKeywords : kw \in DOMAIN sinceShown /\ sinceShown[kw] = COOLDOWN_MS
    /\ \E t \in BagToSet(timers) : t.kind = "recency" /\ t.remaining = 0

\* C31: auto-clear timer invariant. In every reachable state, across lecture
\* stop and restart too, at most one auto-clear timer is pending; while one
\* is pending isShowingDefinition is true and no other definition is being
\* rendered, so the timer is the one of the definition that is showing. An
\* auto-clear timer left over from a previous lecture therefore never fires
\* while a definition surfaced in the new lecture is showing.
C31_AutoClearTimerInvariant ==
    /\ PendingCount("display") <= 1
    /\ PendingCount("display") = 1 => (isShowingDefinition /\ renders = <<>>)

\* a lecture is being recorded while the auto-clear timer of a definition of
\* the previous lecture is still pending
C31_Witness ==
    /\ isRecording
    /\ sortedKeywords # <<>>
    /\ \E t \in BagToSet(timers) : t.kind = "display" /\ t.stale

\* a render call ends without an auto-clear timer being scheduled: it threw
RenderFailed == Len(renders') < Len(renders) /\ timers' = timers

\* C32: render failure handling. When the render call throws,
\* isShowingDefinition is reset, no auto-clear timer is scheduled or pending,
\* nothing is being rendered any more, and the Recency Set and the Match
\* Cache are left as they were (the failed term is not taken out of either);
\* the next matching fragment can surface a term at once.
C32_RenderFailure ==
    [][RenderFailed =>
            /\ ~isShowingDefinition'
            /\ renders' = <<>>
            /\ PendingCount("display") = 0
            /\ recentKeywords' = recentKeywords
            /\ keywordCache' = keywordCache]_vars

\* "x-ray" was surfaced and its render failed; without any time passing the
\* fragment "big bang" has surfaced the next term, "x-ray" still being recent
\* and cached
C32_Witness ==
    /\ last.op = "fragment"
    /\ last.shown = K_big_bang
    /\ K_x_ray \in recentKeywords
    /\ K_x_ray \in DOMAIN sinceShown
    /\ sinceShown[K_x_ray] = 0
    /\ PendingCount("display") = 0
    /\ T_x_ray \in DOMAIN keywordCache
    /\ keywordCache[T_x_ray].isMatch

(***************************************************************************)
(* CaptionManager (agents/caption-manager.ts)                             *)
(***************************************************************************)
DISPLAY_DURATION_MS == 5000

MAIN_MENU_MS == 0

LECTURE_COMPLETE_MS == 10000

NO_TERMS_MS == 3000

HEAD_TILT_MS == 8000

Durations == {DISPLAY_DURATION_MS, MAIN_MENU_MS, LECTURE_COMPLETE_MS, NO_TERMS_MS, HEAD_TILT_MS}

\* formatCaptionText on the words of the text: the last 30 words
formatCaptionText(words) ==
    IF Len(words) <= 30
    THEN Text("caption", words)
    ELSE Text("caption", <<"...">> \o SubSeq(words, Len(words) - 29, Len(words)))

\* formatKeyTermDisplay: the term and at most 100 characters of the definition
formatKeyTermDisplay(term, definition) ==
    IF Len(definition) > 100
    THEN Text("term", <<term>> \o trim(SubSeq(definition, 1, 100)) \o <<".", ".", ".">>)
    ELSE Text("term", <<term>> \o definition)

\* the display of handleHeadTilt for the first three recent key terms, each
\* with at most 50 characters of its definition
RECURSIVE tiltLines(_)
tiltLines(terms) ==
    IF terms = <<>> THEN <<>>
    ELSE <<Head(terms).term>>
         \o (IF Len(Head(terms).definition) > 50
             THEN SubSeq(Head(terms).definition, 1, 47) \o <<".", ".", ".">>
             ELSE Head(terms).definition)
         \o tiltLines(Tail(terms))

MenuText == Text("menu", <<"Lecture Assistant">>)

\* faulty variant: clearTimeout leaves the timer pending
clearTimeout_NoOp(pending, handle) == pending

\* clearTimeout: the timer is pending no more (a no-op for a timer that fired)
clearTimeout(pending, handle) == [h \in DOMAIN pending \ {handle} |-> pending[h]]

\* the handle setTimeout returns: one that no pending timer has
FreshTimer(pending) ==
    CHOOSE h \in 1..(Cardinality(DOMAIN pending) + 2) :
        /\ h \notin DOMAIN pending
        /\ h # displayTimer
        /\ \A g \in 1..(h - 1) : g \in DOMAIN pending \/ g = displayTimer

\* setDisplay: the existing timer is cleared, the display is set and a timer
\* is started to clear it
setDisplay(text, mode, durationMs) ==
    /\ isDisplaying' = TRUE
    /\ currentDisplayMode' = mode
    /\ currentDisplayText' = text
    /\ displayTimer' = FreshTimer(displayTimers)
    /\ displayTimers' =
            (FreshTimer(displayTimers) :> durationMs)
                @@ (IF displayTimer # NullTimer
                    THEN clearTimeout(displayTimers, displayTimer)
                    ELSE displayTimers)

\* clearDisplay, with the timers that are pending when it runs
clearDisplay(pending) ==
    /\ isDisplaying' = FALSE
    /\ currentDisplayMode' = "MAIN_MENU"
    /\ currentDisplayText' = NullText
    /\ displayTimer' = NullTimer
    /\ displayTimers' = IF displayTimer # NullTimer
                        THEN clearTimeout(pending, displayTimer)
                        ELSE pending

\* faulty variant: nothing suppresses a display call
Suppressed_Never(displaying, mode) == FALSE

\* this.isDisplaying && this.currentDisplayMode === DisplayMode.KEY_TERMS
Suppressed(displaying, mode) == displaying /\ mode = "KEY_TERMS"

Silent(call) ==
    /\ response' = [call |-> call, type |-> "SILENT"]
    /\ UNCHANGED <<currentDisplayMode, isDisplaying, displayTimer, currentDisplayText,
                   displayTimers>>

showLiveCaptions(words) ==
    /\ IF Suppressed(isDisplaying, currentDisplayMode)
       THEN Silent("showLiveCaptions")
       ELSE /\ setDisplay(formatCaptionText(words), "LIVE_CAPTIONS", DISPLAY_DURATION_MS)
            /\ response' = [call |-> "showLiveCaptions", type |-> "SHOW_CAPTION"]
    /\ UNCHANGED <<lectureVars, quizVars, collectorVars>>

showKeyTerm(term, definition) ==
    /\ IF Suppressed(isDisplaying, currentDisplayMode)
       THEN Silent("showKeyTerm")
       ELSE /\ setDisplay(formatKeyTermDisplay(term, definition), "KEY_TERMS",
                          DISPLAY_DURATION_MS)
            /\ response' = [call |-> "showKeyTerm", type |-> "SHOW_TERM"]
    /\ UNCHANGED <<lectureVars, quizVars, collectorVars>>

showMainMenu ==
    /\ setDisplay(MenuText, "MAIN_MENU", MAIN_MENU_MS)
    /\ response' = [call |-> "showMainMenu", type |-> "SHOW_CAPTION"]
    /\ UNCHANGED <<lectureVars, quizVars, collectorVars>>

showLectureComplete ==
    /\ setDisplay(Text("summary", <<"Lecture Complete!">>), "LECTURE_COMPLETE",
                  LECTURE_COMPLETE_MS)
    /\ response' = [call |-> "showLectureComplete", type |-> "SHOW_CAPTION"]
    /\ UNCHANGED <<lectureVars, quizVars, collectorVars>>

handleHeadTilt(recentKeyTerms) ==
    /\ IF recentKeyTerms = <<>>
       THEN setDisplay(Text("tilt", <<"No Key Terms Yet">>), "KEY_TERMS", NO_TERMS_MS)
       ELSE setDisplay(Text("tilt", tiltLines(SubSeq(recentKeyTerms, 1,
                                                     Min(3, Len(recentKeyTerms))))),
                       "KEY_TERMS", HEAD_TILT_MS)
    /\ response' = [call |-> "handleHeadTilt", type |-> "SHOW_CAPTION"]
    /\ UNCHANGED <<lectureVars, quizVars, collectorVars>>

forceClear ==
    /\ clearDisplay(displayTimers)
    /\ response' = [call |-> "forceClear", type |-> "none"]
    /\ UNCHANGED <<lectureVars, quizVars, collectorVars>>

\* the callback of a display timer runs when its delay has elapsed
DisplayTimerFires(h) ==
    /\ h \in DOMAIN displayTimers
    /\ displayTimers[h] = 0
    /\ clearDisplay([g \in DOMAIN displayTimers \ {h} |-> displayTimers[g]])
    /\ response' = [call |-> "timer", type |-> "none"]
    /\ UNCHANGED <<lectureVars, quizVars, collectorVars>>

\* time passes, up to the moment the next display timer is due
DisplayTimePasses(ms) ==
    /\ ms > 0
    /\ displayTimers # <<>>
    /\ \A h \in DOMAIN displayTimers : displayTimers[h] >= ms
    /\ displayTimers' = [h \in DOMAIN displayTimers |-> displayTimers[h] - ms]
    /\ response' = [call |-> "time", type |-> "none"]
    /\ UNCHANGED <<currentDisplayMode, isDisplaying, displayTimer, currentDisplayText>>
    /\ UNCHANGED <<lectureVars, quizVars, collectorVars>>

CaptionWords == { <<"hello">>, <<"field", "theory">>, <<"gas", "law">> }

CaptionTerms == << [term |-> "field", definition |-> T_field],
                   [term |-> "theory", definition |-> K_theory] >>

NextCaptions ==
    \/ \E words \in CaptionWords : showLiveCaptions(words)
    \/ \E i \in DOMAIN CaptionTerms :
            showKeyTerm(CaptionTerms[i].term, CaptionTerms[i].definition)
    \/ showMainMenu
    \/ showLectureComplete
    \/ \E n \in 0..Len(CaptionTerms) : handleHeadTilt(SubSeq(CaptionTerms, 1, n))
    \/ forceClear
    \/ \E h \in DOMAIN displayTimers : DisplayTimerFires(h)
    \/ \E ms \in Durations \cup {displayTimers[h] : h \in DOMAIN displayTimers} :
            DisplayTimePasses(ms)

SpecCaptions == Init /\ [][NextCaptions]_vars

\* C33: while a key-term display is active (isDisplaying and mode KEY_TERMS),
\* a call of showKeyTerm or showLiveCaptions answers SILENT and leaves the
\* display text, the display mode and the pending timer as they were.
C33_KeyTermSuppresses ==
    [][(/\ isDisplaying
        /\ currentDisplayMode = "KEY_TERMS"
        /\ response'.call \in {"showKeyTerm", "showLiveCaptions"})
       => /\ response'.type = "SILENT"
          /\ currentDisplayText' = currentDisplayText
          /\ currentDisplayMode' = currentDisplayMode
          /\ isDisplaying'
          /\ displayTimer' = displayTimer
          /\ displayTimers' = displayTimers]_vars

\* a caption was refused while the definition of "field" is displayed with
\* part of its time elapsed
C33_Witness ==
    /\ response = [call |-> "showLiveCaptions", type |-> "SILENT"]
    /\ currentDisplayText = formatKeyTermDisplay("field", T_field)
    /\ currentDisplayMode = "KEY_TERMS"
    /\ displayTimer \in DOMAIN displayTimers
    /\ displayTimers[displayTimer] < DISPLAY_DURATION_MS

C35_MainMenuStays ==
    [][(/\ isDisplaying
        /\ currentDisplayText = MenuText
        /\ response'.call \in {"timer", "time"})
       => /\ isDisplaying'
          /\ currentDisplayText' = MenuText]_vars

(***************************************************************************)
(* FlashcardQuiz and the answer handlers of QuizManager                   *)
(* (quiz/flashcard-quiz.ts)                                               *)
(***************************************************************************)
MaxIncorrect == 3

Card(term, definition) == [term |-> term, definition |-> definition, attempts |-> 0]

\* shuffleQueue: the cards in any order
shuffleQueue(cards) ==
    { [i \in DOMAIN cards |-> cards[f[i]]] :
        f \in {g \in [DOMAIN cards -> DOMAIN cards] :
                    \A a, b \in DOMAIN cards : g[a] = g[b] => a = b} }

\* text.replace(/[^\w\s]/g, "")
RECURSIVE removePunctuation(_)
removePunctuation(s) ==
    IF s = <<>> THEN <<>>
    ELSE (IF IsWordChar(Head(s)) \/ IsSpaceChar(Head(s)) THEN <<Head(s)>> ELSE <<>>)
         \o removePunctuation(Tail(s))

\* the normalizeText of validateResponse
normalizeAnswer(text) == collapseSpaces(removePunctuation(trim(toLowerCase(text))))

\* String.prototype.split(" "): empty pieces are kept, "" gives [""]
RECURSIVE split(_, _)
split(s, cur) ==
    IF s = <<>> THEN <<cur>>
    ELSE IF Head(s) = " "
         THEN <<cur>> \o split(Tail(s), <<>>)
         ELSE split(Tail(s), Append(cur, Head(s)))

RECURSIVE filterLong(_)
filterLong(ws) ==
    IF ws = <<>> THEN <<>>
    ELSE (IF Len(Head(ws)) > 3 THEN <<Head(ws)>> ELSE <<>>) \o filterLong(Tail(ws))

\* userWords.some(userWord => userWord.includes(word) || word.includes(userWord))
someIncludes(userWords, word) ==
    \E i \in DOMAIN userWords : includes(userWords[i], word) \/ includes(word, userWords[i])

RECURSIVE matchingCount(_, _)
matchingCount(expectedWords, userWords) ==
    IF expectedWords = <<>> THEN 0
    ELSE (IF someIncludes(userWords, Head(expectedWords)) THEN 1 ELSE 0)
         + matchingCount(Tail(expectedWords), userWords)

\* matching / expected >= 0.7, where 0 / 0 is NaN and NaN >= 0.7 is false
similarEnough(matching, expected) == expected # 0 /\ 10 * matching >= 7 * expected

validateResponseOf(normalizedUser, normalizedExpected) ==
    \/ normalizedUser = normalizedExpected
    \/ similarEnough(matchingCount(filterLong(split(normalizedExpected, <<>>)),
                                   split(normalizedUser, <<>>)),
                     Len(filterLong(split(normalizedExpected, <<>>))))

validateResponse(userResponse, expectedAnswer) ==
    validateResponseOf(normalizeAnswer(userResponse), normalizeAnswer(expectedAnswer))

\* faulty variant: the card answered incorrectly is not put back
pushBack_Dropped(q, card) == q

\* this.queue.push(this.currentCard)
pushBack(q, card) == Append(q, card)

QuizStep(call, result, drawn) == [call |-> call, result |-> result, drawn |-> drawn]

\* getNextCard, called when no drawn card awaits its judgement
getNextCard ==
    /\ ~quizStep.drawn
    /\ IF queue = <<>>
       THEN /\ session' = [session EXCEPT !.isComplete = TRUE]
            /\ quizStep' = QuizStep("getNextCard", FALSE, FALSE)
            /\ UNCHANGED <<queue, currentCard>>
       ELSE /\ currentCard' = [Head(queue) EXCEPT !.attempts = @ + 1]
            /\ queue' = Tail(queue)
            /\ quizStep' = QuizStep("getNextCard", TRUE, TRUE)
            /\ UNCHANGED session
    /\ UNCHANGED <<lectureVars, captionVars, collectorVars>>

\* flashcard_correct for the drawn card, called by a handler of QuizManager
flashcard_correct(userResponse, handler) ==
    /\ quizStep.drawn
    /\ currentCard # NoCard
    /\ IF validateResponse(userResponse, currentCard.definition)
       THEN /\ session' = [session EXCEPT !.cardsCompleted = @ + 1]
            /\ quizStep' = QuizStep(handler, TRUE, FALSE)
            /\ UNCHANGED queue
       ELSE /\ session.incorrectAttempts < MaxIncorrect
            /\ queue' = pushBack(queue, currentCard)
            /\ session' = [session EXCEPT !.incorrectAttempts = @ + 1]
            /\ quizStep' = QuizStep(handler, FALSE, FALSE)
    /\ UNCHANGED currentCard
    /\ UNCHANGED <<lectureVars, captionVars, collectorVars>>

handleUserAnswer(userAnswer) == flashcard_correct(userAnswer, "handleUserAnswer")

\* this.currentQuiz.flashcard_correct("")
handleTimeout == flashcard_correct(<<>>, "handleTimeout")

skipCard ==
    /\ quizStep.drawn
    /\ IF currentCard # NoCard
       THEN /\ session' = [session EXCEPT !.cardsCompleted = @ + 1]
            /\ currentCard' = NoCard
       ELSE UNCHANGED <<session, currentCard>>
    /\ quizStep' = QuizStep("skipCard", FALSE, FALSE)
    /\ UNCHANGED queue
    /\ UNCHANGED <<lectureVars, captionVars, collectorVars>>

resetQuiz ==
    /\ \E shuffled \in shuffleQueue(ZeroAttempts(session.flashcardSet)) : queue' = shuffled
    /\ session' = [session EXCEPT !.cardsCompleted = 0, !.incorrectAttempts = 0,
                                  !.isComplete = FALSE]
    /\ currentCard' = NoCard
    /\ quizStep' = QuizStep("resetQuiz", FALSE, FALSE)
    /\ UNCHANGED <<lectureVars, captionVars, collectorVars>>

D_field == <<"A"," ","f","i","e","l","d",".">>

D_the_law == <<"t","h","e"," ","l","a","w">>

A_wave == <<"w","a","v","e">>

A_fields == <<"f","i","e","l","d","s">>

A_The_Law == <<"T","h","e"," ","L","a","w","!">>

A_wave_particle == <<"w","a","v","e"," ","p","a","r","t","i","c","l","e">>

FlashcardSets ==
    { <<>>,
      <<Card("field", D_field)>>,
      <<Card("law", D_the_law)>>,
      <<Card("field", D_field), Card("law", D_the_law)>>,
      <<Card("field", D_field), Card("law", D_the_law),
        Card("duality", T_wave_particle_duality)>> }

Answers == {A_wave, A_fields, A_The_Law, A_wave_particle, T_Wave_Particle}

InitQuiz ==
    /\ LectureInit
    /\ CaptionInit
    /\ CollectorInit
    /\ \E flashcardSet \in FlashcardSets :
        \E shuffled \in shuffleQueue(ZeroAttempts(flashcardSet)) :
            QuizOf(flashcardSet, shuffled)

Judged ==
    \/ skipCard
    \/ \E userAnswer \in Answers : handleUserAnswer(userAnswer)
    \/ handleTimeout

NextQuizRun ==
    \/ getNextCard
    \/ Judged

NextQuiz ==
    \/ NextQuizRun
    \/ resetQuiz

SpecQuiz == InitQuiz /\ [][NextQuiz]_vars

\* every card drawn is judged (by an answer, by the 60 s timeout or by a skip)
\* and the next card is requested after every judgement
SpecQuizRun ==
    /\ InitQuiz
    /\ [][NextQuizRun]_vars
    /\ WF_vars(getNextCard)
    /\ WF_vars(Judged)

Drawn == IF quizStep.drawn THEN 1 ELSE 0

AnsweredIncorrectly ==
    /\ quizStep.drawn
    /\ quizStep'.call \in {"handleUserAnswer", "handleTimeout"}
    /\ ~quizStep'.result

\* the card of this term was answered incorrectly and waits at the back of the queue
WaitsAtBack(term) ==
    /\ ~quizStep.drawn
    /\ quizStep.call \in {"handleUserAnswer", "handleTimeout"}
    /\ ~quizStep.result
    /\ queue # <<>>
    /\ queue[Len(queue)].term = term

DrawnAgain(term) == quizStep.drawn /\ currentCard.term = term /\ currentCard.attempts > 1

QuizTerms == {"field", "law", "duality"}

\* C36: when every card drawn is judged once (answered or skipped) before the
\* next one is requested, cardsCompleted + queue length + (1 for a drawn card
\* not yet judged) = totalCards in every state; a card answered incorrectly is
\* appended to the back of the queue and is drawn again later; and the quiz is
\* complete only when the queue is empty and cardsCompleted = totalCards.
C36_QuizQueueInvariant ==
    /\ [](session.cardsCompleted + Len(queue) + Drawn = session.totalCards)
    /\ [](session.isComplete =>
            queue = <<>> /\ session.cardsCompleted = session.totalCards)
    /\ [][AnsweredIncorrectly => queue' = Append(queue, currentCard)]_vars
    /\ \A term \in QuizTerms : WaitsAtBack(term) ~> DrawnAgain(term)

\* of three cards two are completed, and the one that was answered incorrectly
\* has been drawn for the second time
C36_Witness ==
    /\ quizStep.drawn
    /\ currentCard.attempts = 2
    /\ session.totalCards = 3
    /\ session.cardsCompleted = 2
    /\ session.incorrectAttempts = 1
    /\ queue = <<>>

\* C37: an answer timeout counts as an incorrect attempt, for every card
\* definition: flashcard_correct("") returns false, incorrectAttempts is
\* incremented, cardsCompleted is unchanged and the card is put back at the
\* end of the queue.
C37_TimeoutIsIncorrect ==
    [][(quizStep.drawn /\ quizStep'.call = "handleTimeout")
       => /\ ~quizStep'.result
          /\ session'.incorrectAttempts = session.incorrectAttempts + 1
          /\ session'.cardsCompleted = session.cardsCompleted
          /\ queue' = Append(queue, currentCard)]_vars

(***************************************************************************)
(* TopicCollector (agents/topic-collector.ts)                             *)
(***************************************************************************)
MaxStarts == 2

\* a string literal of the source as a sequence of characters
Chars(s) == [i \in 1..Len(s) |-> SubSeq(s, i, i)]

CharsOf(strings) == [i \in DOMAIN strings |-> Chars(strings[i])]

\* the result of an extraction: null, or the text extracted
Null == [ok |-> FALSE, value |-> <<>>]

Some(value) == [ok |-> TRUE, value |-> value]

startsWithAt(text, pat, i) ==
    /\ i >= 0
    /\ i + Len(pat) <= Len(text)
    /\ SubSeq(text, i + 1, i + Len(pat)) = pat

\* the number of whitespace characters of text from position i on (from 0)
RECURSIVE spaceRun(_, _)
spaceRun(text, i) ==
    IF i < Len(text) /\ IsSpaceChar(text[i + 1]) THEN 1 + spaceRun(text, i + 1) ELSE 0

RECURSIVE digitRun(_, _)
digitRun(text, i) ==
    IF i < Len(text) /\ text[i + 1] \in Digits THEN 1 + digitRun(text, i + 1) ELSE 0

\* the leftmost match of /(?:k1|k2|...)\s+(.+)/i in text: its capture, trimmed
keyThenRest(text, keys) ==
    LET hits == { <<i, k>> \in (0..Len(text)) \X DOMAIN keys :
                    /\ startsWithAt(toLowerCase(text), keys[k], i)
                    /\ spaceRun(text, i + Len(keys[k])) >= 1
                    /\ Len(text) >= i + Len(keys[k]) + 2 }
    IN  IF hits = {} THEN Null
        ELSE LET first == MinOf({h[1] : h \in hits})
                 key   == keys[MinOf({h[2] : h \in {g \in hits : g[1] = first}})]
             IN  Some(trim(SubSeq(text, first + Len(key) + 1, Len(text))))

\* the leftmost match of /(?:k1|k2|...)\s+(\d+)/i in text: its capture
keyThenDigits(text, keys) ==
    LET after(i, k) == i + Len(keys[k]) + spaceRun(text, i + Len(keys[k]))
        hits == { <<i, k>> \in (0..Len(text)) \X DOMAIN keys :
                    /\ startsWithAt(toLowerCase(text), keys[k], i)
                    /\ spaceRun(text, i + Len(keys[k])) >= 1
                    /\ digitRun(text, after(i, k)) >= 1 }
    IN  IF hits = {} THEN Null
        ELSE LET first == MinOf({h[1] : h \in hits})
                 k     == MinOf({h[2] : h \in {g \in hits : g[1] = first}})
             IN  Some(SubSeq(text, after(first, k) + 1,
                             after(first, k) + digitRun(text, after(first, k))))

\* the leftmost match of /(?:k1|k2|...)/i in text, the first alternative that
\* matches there
anyKey(text, keys) ==
    LET hits == { <<i, k>> \in (0..Len(text)) \X DOMAIN keys : startsWithAt(toLowerCase(text), keys[k], i) }
    IN  IF hits = {} THEN Null
        ELSE LET first == MinOf({h[1] : h \in hits})
                 key   == keys[MinOf({h[2] : h \in {g \in hits : g[1] = first}})]
             IN  Some(SubSeq(text, first + 1, first + Len(key)))

\* /^(.+)$/
wholeInput(text) == IF text = <<>> THEN Null ELSE Some(text)

\* subject.replace(/^(the|a|an)\s+/i, "")
stripArticle(text) ==
    LET articles == CharsOf(<<"the", "a", "an">>)
        hits == { k \in DOMAIN articles :
                    /\ startsWithAt(toLowerCase(text), articles[k], 0)
                    /\ spaceRun(text, Len(articles[k])) >= 1 }
    IN  IF hits = {} THEN text
        ELSE LET n == Len(articles[MinOf(hits)])
             IN  SubSeq(text, n + spaceRun(text, n) + 1, Len(text))

\* subject.replace(/\s+(class|course|subject|topic)$/i, "")
stripKind(text) ==
    LET kinds == CharsOf(<<"class", "course", "subject", "topic">>)
        hits == { k \in DOMAIN kinds :
                    /\ Len(text) > Len(kinds[k])
                    /\ startsWithAt(toLowerCase(text), kinds[k], Len(text) - Len(kinds[k]))
                    /\ IsSpaceChar(text[Len(text) - Len(kinds[k])]) }
    IN  IF hits = {} THEN text
        ELSE trimEnd(SubSeq(text, 1, Len(text) - Len(kinds[MinOf(hits)])))

UpperChar(c) ==
    IF \E i \in DOMAIN LowerLetters : LowerLetters[i] = c
    THEN UpperLetters[CHOOSE i \in DOMAIN LowerLetters : LowerLetters[i] = c]
    ELSE c

\* str.replace(/\b\w/g, (char) => char.toUpperCase())
capitalizeWords(str) ==
    [i \in DOMAIN str |->
        IF IsWordChar(str[i]) /\ (i = 1 \/ ~IsWordChar(str[i - 1]))
        THEN UpperChar(str[i]) ELSE str[i]]

\* the body of the loop over the patterns: the first match that, cleaned up,
\* has more than 2 and fewer than 50 characters
RECURSIVE firstUsable(_)
firstUsable(matches) ==
    IF matches = <<>> THEN Null
    ELSE LET cleaned == stripKind(stripArticle(trim(Head(matches).value)))
         IN  IF Head(matches).ok /\ Len(cleaned) > 2 /\ Len(cleaned) < 50
             THEN Some(capitalizeWords(cleaned))
             ELSE firstUsable(Tail(matches))

InvalidWords ==
    CharsOf(<<"hi", "hey", "hello", "yes", "no", "ok", "okay", "sure", "maybe", "i", "me",
              "my", "the", "a", "an", "and", "or", "but">>)

InvalidStarts == CharsOf(<<"my name is", "i am", "i'm", "this is">>)

InvalidNumbers ==
    CharsOf(<<"one", "two", "three", "four", "five", "six", "seven", "eight", "nine", "ten">>)

validSubjects ==
    CharsOf(<<"math", "mathematics", "algebra", "calculus", "geometry", "statistics",
              "science", "physics", "chemistry", "biology", "anatomy", "physiology",
              "history", "american history", "world history", "european history",
              "english", "literature", "writing", "composition", "grammar",
              "computer science", "programming", "coding", "software engineering",
              "art", "music", "philosophy", "psychology", "sociology", "anthropology",
              "economics", "political science", "government", "civics", "geography",
              "geology", "astronomy", "astrophysics", "engineering",
              "mechanical engineering", "electrical engineering", "business",
              "marketing", "accounting", "finance", "medicine", "nursing", "health",
              "nutrition", "education", "pedagogy", "linguistics", "foreign language",
              "spanish", "french", "german", "chinese", "japanese">>)

isValidAcademicSubject(input) ==
    /\ toLowerCase(input) \notin Range(InvalidWords)
    /\ ~\E k \in DOMAIN InvalidStarts : startsWithAt(toLowerCase(input), InvalidStarts[k], 0)
    /\ toLowerCase(input) \notin Range(InvalidNumbers)
    /\ ~(input # <<>> /\ \A i \in DOMAIN input : input[i] \in Digits)
    /\ Len(input) \notin {1, 2}
    /\ Len(input) < 50
    /\ \E i \in DOMAIN input : input[i] \in Range(LowerLetters) \cup Range(UpperLetters)
    /\ \E k \in DOMAIN validSubjects :
            \/ includes(toLowerCase(input), validSubjects[k])
            \/ includes(validSubjects[k], toLowerCase(input))

SubjectKeys == CharsOf(<<"subject is", "topic is", "studying", "learning", "about">>)

AcademicSubjects ==
    CharsOf(<<"american history", "world history", "mathematics", "math", "science",
              "physics", "chemistry", "biology", "english", "literature",
              "computer science", "programming", "art", "music", "philosophy",
              "psychology", "economics", "political science", "sociology">>)

extractSubject(input) ==
    IF ~isValidAcademicSubject(trim(toLowerCase(input))) THEN Null
    ELSE firstUsable(<<keyThenRest(input, SubjectKeys),
                       anyKey(input, AcademicSubjects),
                       wholeInput(input)>>)

SubtopicKeys ==
    CharsOf(<<"subtopic is", "specific topic is", "focusing on", "covering", "about">>)

SubtopicUnits == CharsOf(<<"chapter", "unit", "section", "module">>)

SubtopicVerbs == CharsOf(<<"we're studying", "we're covering", "we're learning">>)

extractSubtopic(input) ==
    firstUsable(<<keyThenRest(input, SubtopicKeys),
                  keyThenDigits(input, SubtopicUnits),
                  keyThenRest(input, SubtopicVerbs),
                  wholeInput(input)>>)

validLevels ==
    CharsOf(<<"elementary", "middle school", "high school", "undergraduate", "graduate",
              "professional", "college", "university">>)

isValidAcademicLevel(input) ==
    \E k \in DOMAIN validLevels :
        \/ includes(toLowerCase(input), validLevels[k])
        \/ includes(validLevels[k], toLowerCase(input))

levelMappings ==
    << <<"high school", "HIGH_SCHOOL">>, <<"highschool", "HIGH_SCHOOL">>,
       <<"hs", "HIGH_SCHOOL">>, <<"secondary", "HIGH_SCHOOL">>,
       <<"grade 9", "HIGH_SCHOOL">>, <<"grade 10", "HIGH_SCHOOL">>,
       <<"grade 11", "HIGH_SCHOOL">>, <<"grade 12", "HIGH_SCHOOL">>,
       <<"college", "COLLEGE">>, <<"undergraduate", "UNDERGRADUATE">>,
       <<"undergrad", "COLLEGE">>, <<"bachelor", "COLLEGE">>, <<"bachelor's", "COLLEGE">>,
       <<"university", "COLLEGE">>, <<"freshman", "COLLEGE">>, <<"sophomore", "COLLEGE">>,
       <<"junior", "COLLEGE">>, <<"senior", "COLLEGE">>,
       <<"masters", "GRADUATE">>, <<"master's", "GRADUATE">>, <<"graduate", "GRADUATE">>,
       <<"grad", "GRADUATE">>, <<"ms", "GRADUATE">>, <<"ma", "GRADUATE">>,
       <<"phd", "GRADUATE">>, <<"ph.d", "GRADUATE">>, <<"doctorate", "GRADUATE">>,
       <<"doctoral", "GRADUATE">>, <<"ph.d.", "GRADUATE">>,
       <<"professional", "PROFESSIONAL">>, <<"work", "PROFESSIONAL">>,
       <<"industry", "PROFESSIONAL">>, <<"career", "PROFESSIONAL">> >>

\* the level of the first mapping whose key the input includes; "none" is null
extractAcademicLevel(input) ==
    LET hits == { k \in DOMAIN levelMappings :
                    includes(trim(toLowerCase(input)), Chars(levelMappings[k][1])) }
    IN  IF ~isValidAcademicLevel(input) \/ hits = {} THEN "none"
        ELSE levelMappings[MinOf(hits)][2]

Topic(data) == [subject |-> data.subject, subtopic |-> data.subtopic, level |-> data.level]

startCollection ==
    /\ collected.started < MaxStarts
    /\ state' = [isCollecting |-> TRUE, currentStep |-> "subject", collectedData |-> NoData]
    /\ onCompleteCallback' = collected.started + 1
    /\ collected' = Collected("startCollection", <<>>, FALSE, FALSE,
                              collected.started + 1, collected.topics)
    /\ UNCHANGED completing
    /\ UNCHANGED <<lectureVars, captionVars, quizVars>>

Returned(transcript, result, accepted) ==
    collected' = Collected("processVoiceInput", transcript, result, accepted,
                           collected.started, collected.topics)

processSubjectInput(transcript, input) ==
    IF extractSubject(input).ok
    THEN /\ state' = [state EXCEPT !.collectedData.subject = extractSubject(input).value,
                                   !.currentStep = "subtopic"]
         /\ Returned(transcript, TRUE, TRUE)
         /\ UNCHANGED completing
    ELSE /\ Returned(transcript, TRUE, FALSE)
         /\ UNCHANGED <<state, completing>>

processSubtopicInput(transcript, input) ==
    IF extractSubtopic(input).ok
    THEN /\ state' = [state EXCEPT !.collectedData.subtopic = extractSubtopic(input).value,
                                   !.currentStep = "level"]
         /\ Returned(transcript, TRUE, TRUE)
         /\ UNCHANGED completing
    ELSE /\ Returned(transcript, TRUE, FALSE)
         /\ UNCHANGED <<state, completing>>

\* completeTopicCollection up to its await: the topic is built, the collection
\* is over and the completion message is being shown
completeTopicCollection(data) ==
    /\ state' = [isCollecting |-> FALSE, currentStep |-> "complete", collectedData |-> data]
    /\ completing' = Append(completing, Topic(data))

processLevelInput(transcript, input) ==
    IF extractAcademicLevel(input) # "none"
    THEN /\ completeTopicCollection([state.collectedData EXCEPT
                                        !.level = extractAcademicLevel(input)])
         /\ Returned(transcript, TRUE, TRUE)
    ELSE /\ Returned(transcript, TRUE, FALSE)
         /\ UNCHANGED <<state, completing>>

processVoiceInput(transcript) ==
    /\ IF ~state.isCollecting
       THEN /\ Returned(transcript, FALSE, FALSE)
            /\ UNCHANGED <<state, completing>>
       ELSE CASE state.currentStep = "subject" ->
                    processSubjectInput(transcript, trim(toLowerCase(transcript)))
              [] state.currentStep = "subtopic" ->
                    processSubtopicInput(transcript, trim(toLowerCase(transcript)))
              [] state.currentStep = "level" ->
                    processLevelInput(transcript, trim(toLowerCase(transcript)))
              [] OTHER ->
                    /\ Returned(transcript, FALSE, FALSE)
                    /\ UNCHANGED <<state, completing>>
    /\ UNCHANGED onCompleteCallback
    /\ UNCHANGED <<lectureVars, captionVars, quizVars>>

\* an invocation of a completion callback: which callback, the level of the
\* topic it was given and where the collector was at that moment
Invoked(callback, topic, at) ==
    [callback |-> callback, level |-> topic.level, step |-> at.currentStep,
     collecting |-> at.isCollecting]

\* the completion message was shown: the rest of completeTopicCollection runs
\* and calls the callback that is set at that moment
CompletionShown ==
    /\ completing # <<>>
    /\ completing' = Tail(completing)
    /\ collected' = Collected("completion", <<>>, FALSE, FALSE, collected.started,
                              IF onCompleteCallback # NullCallback
                              THEN Append(collected.topics,
                                          Invoked(onCompleteCallback,
                                                  Head(completing), state))
                              ELSE collected.topics)
    /\ UNCHANGED <<state, onCompleteCallback>>
    /\ UNCHANGED <<lectureVars, captionVars, quizVars>>

\* showTextWall rejects: the rest of completeTopicCollection is skipped
CompletionFailed ==
    /\ completing # <<>>
    /\ completing' = Tail(completing)
    /\ collected' = Collected("completion", <<>>, FALSE, FALSE, collected.started,
                              collected.topics)
    /\ UNCHANGED <<state, onCompleteCallback>>
    /\ UNCHANGED <<lectureVars, captionVars, quizVars>>

cancelCollection ==
    /\ state' = [isCollecting |-> FALSE, currentStep |-> "subject", collectedData |-> NoData]
    /\ onCompleteCallback' = NullCallback
    /\ collected' = Collected("cancelCollection", <<>>, FALSE, FALSE, collected.started,
                              collected.topics)
    /\ UNCHANGED completing
    /\ UNCHANGED <<lectureVars, captionVars, quizVars>>

PromptedLevels == CharsOf(<<"High School", "College", "Masters", "PhD">>)

Transcripts == Range(PromptedLevels) \cup Range(CharsOf(<<"Physics", "Chapter 3", "ok">>))

NextCollector ==
    \/ startCollection
    \/ \E transcript \in Transcripts : processVoiceInput(transcript)
    \/ CompletionShown
    \/ CompletionFailed
    \/ cancelCollection

SpecCollector == Init /\ [][NextCollector]_vars

StepOrder == { <<"subject", "subtopic">>, <<"subtopic", "level">>, <<"level", "complete">> }

InvocationsOf(callback) ==
    Cardinality({i \in DOMAIN collected.topics : collected.topics[i].callback = callback})

\* C38: after startCollection the step advances only subject -> subtopic ->
\* level -> complete, one step per accepted input; a rejected input leaves the
\* step and the collected data unchanged; processVoiceInput returns false and
\* changes nothing when not collecting; and the completion callback is invoked
\* exactly once per started collection, only after subject, subtopic and level
\* have all been collected.
C38_TopicCollection ==
    /\ [][collected'.call = "processVoiceInput"
            => IF collected'.accepted
               THEN /\ state.isCollecting
                    /\ <<state.currentStep, state'.currentStep>> \in StepOrder
               ELSE state' = state]_vars
    /\ [][collected'.call \notin {"processVoiceInput", "startCollection", "cancelCollection"}
            => state' = state]_vars
    /\ [][(~state.isCollecting /\ collected'.call = "processVoiceInput")
            => /\ ~collected'.result
               /\ UNCHANGED <<state, onCompleteCallback, completing>>
               /\ collected'.topics = collected.topics]_vars
    /\ [](\A callback \in 1..MaxStarts : InvocationsOf(callback) <= 1)
    /\ [](\A i \in DOMAIN collected.topics :
                /\ collected.topics[i].step = "complete"
                /\ ~collected.topics[i].collecting
                /\ collected.topics[i].level # "none")
    /\ [][Len(completing') < Len(completing)
            => Len(collected'.topics) = Len(collected.topics) + 1]_vars

\* C39: at the level step each of the answers the prompt names ("High School",
\* "College", "Masters", "PhD") is accepted as an academic level and completes
\* the collection.
C39_PromptedLevelsAccepted ==
    [][(/\ state.isCollecting
        /\ state.currentStep = "level"
        /\ collected'.call = "processVoiceInput"
        /\ collected'.input \in Range(PromptedLevels))
       => /\ collected'.accepted
          /\ state'.currentStep = "complete"
          /\ state'.collectedData.level # "none"
          /\ Len(completing') = Len(completing) + 1]_vars
====
